---------------------------- MODULE Spec2Model ----------------------------
(***************************************************************************)
(* A model of the unsmear library: the leap table built by                 *)
(* NewLeapTableFromProto and the six conversions of LeapTable, between     *)
(* smeared UTC (absl::Time) and the TAI and GPST timescales.               *)
(*                                                                         *)
(* Durations and times keep the resolution of absl::Duration, a quarter of *)
(* a nanosecond.  A duration is a tuple <<d, s, m, h, t>> of days, seconds *)
(* of the day, milliseconds, half-microseconds and ticks, since no single  *)
(* machine integer of the checker holds a tick count.  An absl::Time is    *)
(* the duration since the Unix epoch, a TaiTime the duration since the TAI *)
(* epoch and a GpsTime the duration since the GPS epoch, as in the source. *)
(***************************************************************************)
EXTENDS Integers, Sequences, FiniteSets, TLC

(***************************************************************************)
(* absl::Duration arithmetic on the mixed-radix representation.            *)
(***************************************************************************)

\* Ticks (1/4 ns) in half a microsecond, half-microseconds in a millisecond,
\* milliseconds in a second, seconds in a day.
TicksPerHalfMicro == 2000
HalfMicrosPerMilli == 2000
MillisPerSecond == 1000
SecondsPerDay == 86400

\* The day count at which a duration stops being representable: the finite
\* durations run from -InfDays days, as absl's run from INT64_MIN seconds,
\* to one tick less than InfDays days, as absl's to one tick less than
\* INT64_MAX + 1 seconds.
InfDays == 1000000000

InfiniteDuration == <<InfDays, 0, 0, 0, 0>>
NegInfiniteDuration == <<-InfDays - 1, 0, 0, 0, 0>>
ZeroDuration == <<0, 0, 0, 0, 0>>

IsInf(x) == x[1] >= InfDays \/ x[1] < -InfDays

\* Carries every limb into its range; the day limb takes the sign.
Norm(x) ==
  LET t == x[5]
      h == x[4] + (t \div TicksPerHalfMicro)
      m == x[3] + (h \div HalfMicrosPerMilli)
      s == x[2] + (m \div MillisPerSecond)
      d == x[1] + (s \div SecondsPerDay)
  IN  <<d, s % SecondsPerDay, m % MillisPerSecond,
        h % HalfMicrosPerMilli, t % TicksPerHalfMicro>>

\* operator< on durations and times: lexicographic on normalised limbs.
Lt(x, y) ==
  \E i \in 1..5 : x[i] < y[i] /\ \A j \in 1..(i - 1) : x[j] = y[j]

Le(x, y) == ~Lt(y, x)

\* Arithmetic on finite durations saturates: a result past the finite range
\* is the infinity of its side.
Saturate(x) ==
  IF x[1] >= InfDays THEN InfiniteDuration
  ELSE IF x[1] < -InfDays THEN NegInfiniteDuration
  ELSE x

\* operator- (unary).
NegD(x) ==
  IF IsInf(x) THEN (IF x[1] > 0 THEN NegInfiniteDuration ELSE InfiniteDuration)
  ELSE Saturate(Norm(<<-x[1], -x[2], -x[3], -x[4], -x[5]>>))

\* operator+= keeping whole nanoseconds only: the tick limb of the sum
\* truncated to a multiple of four ticks.
AddD_WholeNanos(x, y) ==
  IF IsInf(x) THEN x
  ELSE IF IsInf(y) THEN y
  ELSE LET sum == Saturate(Norm(<<x[1] + y[1], x[2] + y[2], x[3] + y[3],
                                  x[4] + y[4], x[5] + y[5]>>))
       IN  IF IsInf(sum) THEN sum
           ELSE <<sum[1], sum[2], sum[3], sum[4], sum[5] - (sum[5] % 4)>>

\* operator+= with the finite sum wrapping around the finite range, as a
\* two's complement sum does.
AddD_Wraps(x, y) ==
  IF IsInf(x) THEN x
  ELSE IF IsInf(y) THEN y
  ELSE LET sum == Norm(<<x[1] + y[1], x[2] + y[2], x[3] + y[3], x[4] + y[4],
                         x[5] + y[5]>>)
       IN  <<((sum[1] + InfDays) % (2 * InfDays)) - InfDays,
             sum[2], sum[3], sum[4], sum[5]>>

\* operator+= : an infinite left operand absorbs, an infinite right operand
\* gives that infinity, a finite sum saturates.
AddD(x, y) ==
  IF IsInf(x) THEN x
  ELSE IF IsInf(y) THEN y
  ELSE Saturate(Norm(<<x[1] + y[1], x[2] + y[2], x[3] + y[3], x[4] + y[4],
                       x[5] + y[5]>>))

\* operator-= .
SubD(x, y) ==
  IF IsInf(x) THEN x
  ELSE IF IsInf(y) THEN NegD(y)
  ELSE Saturate(Norm(<<x[1] - y[1], x[2] - y[2], x[3] - y[3], x[4] - y[4],
                       x[5] - y[5]>>))

\* Factories.
Seconds(n) == Norm(<<0, n, 0, 0, 0>>)
Milliseconds(n) == Norm(<<0, 0, n, 0, 0>>)
Hours(n) == Norm(<<0, n * 3600, 0, 0, 0>>)
Days(n) == <<n, 0, 0, 0, 0>>
Ticks(n) == Norm(<<0, 0, 0, 0, n>>)

\* absl::ToInt64Seconds of a finite duration of whole days and seconds,
\* rebuilt by Seconds(): truncation toward zero of the sub-second part.
TruncToSeconds(x) ==
  IF x[1] < 0 /\ (x[3] # 0 \/ x[4] # 0 \/ x[5] # 0)
  THEN Norm(<<x[1], x[2] + 1, 0, 0, 0>>)
  ELSE <<x[1], x[2], 0, 0, 0>>


\* absl::FDivDuration(d, den) followed by the product of that double with
\* Seconds(1): d / (n seconds) of a second, rounded to the nearest tick by
\* std::round.  The double quotient is within 1e-6 tick of the exact one, so
\* the rounding is the exact one except when the exact value lies half way
\* between two ticks (possible only for an even n); there the double lands on
\* either side, depending on the operands' bits, and up chooses the side.
RoundDivAbs(x, n, up) ==
  LET S  == x[1] * SecondsPerDay + x[2]
      q0 == S \div n
      r0 == S % n
      a1 == r0 * MillisPerSecond + x[3]
      q1 == a1 \div n
      r1 == a1 % n
      a2 == r1 * HalfMicrosPerMilli + x[4]
      q2 == a2 \div n
      r2 == a2 % n
      a3 == r2 * TicksPerHalfMicro + x[5]
      q3 == a3 \div n
      r3 == a3 % n
      c  == IF 2 * r3 > n \/ (2 * r3 = n /\ up) THEN 1 ELSE 0
  IN  Norm(<<0, q0, q1, q2, q3 + c>>)

RoundDiv(x, n, up) ==
  IF Lt(x, ZeroDuration) THEN NegD(RoundDivAbs(NegD(x), n, up))
  ELSE RoundDivAbs(x, n, up)

\* Whether the exact quotient of RoundDiv is half way between two ticks.
IsTie(x, n) ==
  LET y == IF Lt(x, ZeroDuration) THEN NegD(x) ELSE x
  IN  RoundDivAbs(y, n, TRUE) # RoundDivAbs(y, n, FALSE)

(***************************************************************************)
(* The proleptic Gregorian calendar of absl::ToTM and absl::FromDateTime   *)
(* in the UTC time zone.                                                   *)
(***************************************************************************)

\* Days from 1970-01-01 to the civil day y-m-d; a day past the month's end
\* runs into the next month, as absl normalises it.
DaysFromCivil(y, m, d) ==
  LET yy  == IF m <= 2 THEN y - 1 ELSE y
      era == yy \div 400
      yoe == yy - era * 400
      mp  == IF m > 2 THEN m - 3 ELSE m + 9
      doy == (153 * mp + 2) \div 5
      doe == yoe * 365 + (yoe \div 4) - (yoe \div 100) + doy
  IN  era * 146097 + doe - 719468 + (d - 1)

FromDateTime(y, m, d, hh) == <<DaysFromCivil(y, m, d), hh * 3600, 0, 0, 0>>

\* struct tm from the 400-year era, the year of the era, the day of the year
\* counted from 1 March, the month counted from March and the hour: tm_year
\* counts from 1900, tm_mon from 0.
TmOfMonth(era, yoe, doy, mp, hour) ==
  [tm_year |-> yoe + era * 400 + (IF mp < 10 THEN 0 ELSE 1) - 1900,
   tm_mon  |-> (IF mp < 10 THEN mp + 3 ELSE mp - 9) - 1,
   tm_mday |-> doy - ((153 * mp + 2) \div 5) + 1,
   tm_hour |-> hour]

TmOfDayOfYear(era, yoe, doy, hour) ==
  TmOfMonth(era, yoe, doy, (5 * doy + 2) \div 153, hour)

TmOfYearOfEra(era, doe, yoe, hour) ==
  TmOfDayOfYear(era, yoe, doe - (365 * yoe + (yoe \div 4) - (yoe \div 100)), hour)

TmOfDayOfEra(era, doe, hour) ==
  TmOfYearOfEra(era, doe,
                (doe - (doe \div 1460) + (doe \div 36524) - (doe \div 146096))
                  \div 365,
                hour)

\* absl::ToTM(t, absl::UTCTimeZone()): the civil day of the day limb.
ToTM(t) ==
  TmOfDayOfEra((t[1] + 719468) \div 146097,
               (t[1] + 719468) - ((t[1] + 719468) \div 146097) * 146097,
               t[2] \div 3600)

(***************************************************************************)
(* Epochs and the TAI <-> GPST offset.                                     *)
(***************************************************************************)

TaiEpoch == ZeroDuration
GpsEpoch == ZeroDuration
UnixEpoch == ZeroDuration

TaiInfiniteFuture == InfiniteDuration
TaiInfinitePast == NegInfiniteDuration
GpsInfiniteFuture == InfiniteDuration
GpsInfinitePast == NegInfiniteDuration
InfiniteFuture == InfiniteDuration
InfinitePast == NegInfiniteDuration

\* TaiOffset without the 19 s by which TAI was ahead of UTC at the GPS
\* epoch.
TaiOffset_DaysOnly(timescale) ==
  IF timescale = "GPST" THEN Seconds(8040 * 86400) ELSE ZeroDuration

\* internal::TaiOffset of a timescale.
TaiOffset(timescale) ==
  IF timescale = "GPST" THEN Seconds(8040 * 86400 + 19) ELSE ZeroDuration

ToTaiTime(t, timescale) ==
  AddD(AddD(TaiEpoch, TaiOffset(timescale)), SubD(t, ZeroDuration))

ToGpsTime(t, timescale) ==
  AddD(SubD(GpsEpoch, TaiOffset("GPST")), SubD(ToTaiTime(t, timescale), TaiEpoch))

TaiGpsEpoch == AddD(TaiEpoch, TaiOffset("GPST"))
UtcGpsEpoch == Seconds(315964800)
ModernUtcEpoch == Seconds(63072000)
TaiModernUtcEpoch == AddD(AddD(TaiEpoch, Hours(5113 * 24)), Seconds(10))

(***************************************************************************)
(* NewLeapTableFromProto and ToProto.                                      *)
(***************************************************************************)

kMinJdn == 2441347
kMaxJdn == 5373483

JdnToTime(jdn) == AddD(AddD(UnixEpoch, Hours(12)), Days(jdn - 2440588))

\* Only valid for times at UTC noon: the quotient of the whole seconds since
\* the Unix epoch by 86400, truncated toward zero.
ToJdnInt(t) ==
  LET u == SubD(t, Hours(12))
      whole == u[2] = 0 /\ u[3] = 0 /\ u[4] = 0 /\ u[5] = 0
  IN  (IF u[1] < 0 /\ ~whole THEN u[1] + 1 ELSE u[1]) + 2440588

\* nullptr.
Null == <<>>

Entry(utc, tai, smear) == [utc |-> utc, tai |-> tai, smear |-> smear]

\* LeapEntries with the start of the smear a day early, at noon of the day
\* before the leap day.
LeapEntries_StartsDayBefore(jdn, sign) ==
  <<Entry(JdnToTime(jdn + 1), TaiEpoch, sign),
    Entry(JdnToTime(jdn - 1), TaiEpoch, 0)>>

\* The two entries of one leap, in the order the array holds them: the end
\* of the smear (lower index) and then its start.
LeapEntries(jdn, sign) ==
  <<Entry(JdnToTime(jdn + 1), TaiEpoch, sign), Entry(JdnToTime(jdn), TaiEpoch, 0)>>

RECURSIVE FillLeaps(_, _)
\* The array part written by one of the two loops over a leap list: the first
\* leap of the list lands at the highest indexes.
FillLeaps(jdns, sign) ==
  IF jdns = <<>> THEN <<>>
  ELSE FillLeaps(Tail(jdns), sign) \o LeapEntries(Head(jdns), sign)

RECURSIVE Insert(_, _)
\* Inserts e into a sequence sorted by descending utc, after the entries of
\* its own utc.
Insert(sorted, e) ==
  IF sorted = <<>> THEN <<e>>
  ELSE IF Lt(Head(sorted).utc, e.utc) THEN <<e>> \o sorted
  ELSE <<Head(sorted)>> \o Insert(Tail(sorted), e)

RECURSIVE SortEntries(_)
\* std::sort by a.utc > b.utc, in the one order the entries have when no two
\* utc are equal.
SortEntries(entries) ==
  IF entries = <<>> THEN <<>>
  ELSE Insert(SortEntries(Tail(entries)), Head(entries))

RECURSIVE Inserts(_, _)
\* The sequences that hold e in sorted, a sequence sorted by descending utc:
\* before, between or after the entries of its own utc.
Inserts(sorted, e) ==
  IF sorted = <<>> THEN {<<e>>}
  ELSE IF Lt(Head(sorted).utc, e.utc) THEN {<<e>> \o sorted}
  ELSE {<<Head(sorted)>> \o s : s \in Inserts(Tail(sorted), e)}
       \cup (IF Head(sorted).utc = e.utc THEN {<<e>> \o sorted} ELSE {})

\* A sort that keeps, of the entries of equal utc, the first only.
SortOrders_Unique(entries) ==
  LET kept == SelectSeq([i \in 1..Len(entries) |-> i],
                        LAMBDA i : \A j \in 1..(i - 1) :
                                     entries[j].utc # entries[i].utc)
  IN  {SortEntries([k \in 1..Len(kept) |-> entries[kept[k]]])}

RECURSIVE SortOrders(_)
\* The outcomes of std::sort by a.utc > b.utc: entries of equal utc end in
\* an order the library does not specify.
SortOrders(entries) ==
  IF entries = <<>> THEN {<<>>}
  ELSE UNION {Inserts(s, Head(entries)) : s \in SortOrders(Tail(entries))}

RECURSIVE FillTai_WithoutSmear(_, _)
\* FillTai giving every segment as much TAI as it has UTC.
FillTai_WithoutSmear(entries, i) ==
  IF i = 0 THEN entries
  ELSE IF entries[i].utc = entries[i + 1].utc THEN Null
  ELSE IF entries[i].smear # 0
          /\ ToTM(entries[i].utc).tm_mon = ToTM(entries[i + 1].utc).tm_mon
       THEN Null
  ELSE FillTai_WithoutSmear(
         [entries EXCEPT ![i].tai =
            AddD(entries[i + 1].tai,
                 TruncToSeconds(SubD(entries[i].utc, entries[i + 1].utc)))],
         i - 1)

RECURSIVE FillTai_SameDayOfMonth(_, _)
\* FillTai comparing the days of the month of the two ends of a smear in
\* place of their months.
FillTai_SameDayOfMonth(entries, i) ==
  IF i = 0 THEN entries
  ELSE IF entries[i].utc = entries[i + 1].utc THEN Null
  ELSE IF entries[i].smear # 0
          /\ ToTM(entries[i].utc).tm_mday = ToTM(entries[i + 1].utc).tm_mday
       THEN Null
  ELSE FillTai_SameDayOfMonth(
         [entries EXCEPT ![i].tai =
            AddD(AddD(entries[i + 1].tai,
                      TruncToSeconds(SubD(entries[i].utc, entries[i + 1].utc))),
                 Seconds(entries[i].smear))],
         i - 1)

RECURSIVE FillTai(_, _)
\* The loop that validates the sorted entries and fills in TAI, from the
\* entry before the last (index i) down to the first.
FillTai(entries, i) ==
  IF i = 0 THEN entries
  ELSE IF entries[i].utc = entries[i + 1].utc THEN Null
  ELSE IF entries[i].smear # 0
          /\ ToTM(entries[i].utc).tm_mon = ToTM(entries[i + 1].utc).tm_mon
       THEN Null
  ELSE FillTai([entries EXCEPT ![i].tai =
                  AddD(AddD(entries[i + 1].tai,
                            TruncToSeconds(SubD(entries[i].utc, entries[i + 1].utc))),
                       Seconds(entries[i].smear))],
               i - 1)

InRangeJdns(jdns) == \A k \in 1..Len(jdns) : jdns[k] >= kMinJdn /\ jdns[k] <= kMaxJdn

\* The array before the sort: the expiration, the leaps of the two lists and
\* the epoch.
ProtoEntries(proto) ==
  <<Entry(JdnToTime(proto.end_jdn + 1), TaiEpoch, 0)>>
  \o FillLeaps(proto.negative_leaps, -1)
  \o FillLeaps(proto.positive_leaps, 1)
  \o <<Entry(ModernUtcEpoch, TaiModernUtcEpoch, 0)>>

\* Validate requiring the expiration itself to be on the first day of a
\* month.
Validate_ExpirationOnFirst(proto, expiration, sorted) ==
  IF proto.end_jdn < kMinJdn \/ proto.end_jdn > kMaxJdn THEN Null
  ELSE IF ToTM(expiration).tm_mday # 1 THEN Null
  ELSE IF ~InRangeJdns(proto.positive_leaps) THEN Null
  ELSE IF ~InRangeJdns(proto.negative_leaps) THEN Null
  ELSE IF sorted[1].utc # expiration \/ sorted[1].smear # 0 THEN Null
  ELSE IF Lt(sorted[Len(sorted)].utc, ModernUtcEpoch) THEN Null
  ELSE FillTai(sorted, Len(sorted) - 1)

\* Validate with the two bounds of end_jdn excluded from its range.
Validate_OpenRange(proto, expiration, sorted) ==
  IF proto.end_jdn <= kMinJdn \/ proto.end_jdn >= kMaxJdn THEN Null
  ELSE IF ToTM(AddD(expiration, Hours(24))).tm_mday # 1 THEN Null
  ELSE IF ~InRangeJdns(proto.positive_leaps) THEN Null
  ELSE IF ~InRangeJdns(proto.negative_leaps) THEN Null
  ELSE IF sorted[1].utc # expiration \/ sorted[1].smear # 0 THEN Null
  ELSE IF Lt(sorted[Len(sorted)].utc, ModernUtcEpoch) THEN Null
  ELSE FillTai(sorted, Len(sorted) - 1)

\* Validate looking, for the expiration, at the last place of the sorted
\* array in place of the first.
Validate_BackIsExpiration(proto, expiration, sorted) ==
  IF proto.end_jdn < kMinJdn \/ proto.end_jdn > kMaxJdn THEN Null
  ELSE IF ToTM(AddD(expiration, Hours(24))).tm_mday # 1 THEN Null
  ELSE IF ~InRangeJdns(proto.positive_leaps) THEN Null
  ELSE IF ~InRangeJdns(proto.negative_leaps) THEN Null
  ELSE IF sorted[Len(sorted)].smear # 0 THEN Null
  ELSE IF Lt(sorted[Len(sorted)].utc, ModernUtcEpoch) THEN Null
  ELSE FillTai(sorted, Len(sorted) - 1)

\* NewLeapTableFromProto with sorted the outcome of its std::sort.
Validate(proto, expiration, sorted) ==
  IF proto.end_jdn < kMinJdn \/ proto.end_jdn > kMaxJdn THEN Null
  ELSE IF ToTM(AddD(expiration, Hours(24))).tm_mday # 1 THEN Null
  ELSE IF ~InRangeJdns(proto.positive_leaps) THEN Null
  ELSE IF ~InRangeJdns(proto.negative_leaps) THEN Null
  ELSE IF sorted[1].utc # expiration \/ sorted[1].smear # 0 THEN Null
  ELSE IF Lt(sorted[Len(sorted)].utc, ModernUtcEpoch) THEN Null
  ELSE FillTai(sorted, Len(sorted) - 1)

\* The table of a catalog; where the sort has several outcomes, the table of
\* one of them.
NewLeapTableFromProto(proto) ==
  Validate(proto, JdnToTime(proto.end_jdn + 1),
           SortEntries(ProtoEntries(proto)))

\* expiration() returning the utc of the last entry of the array.
LeapTableExpiration_Back(lt) == lt[Len(lt)].utc

LeapTableExpiration(lt) == lt[1].utc

\* LeapTable::operator== : the same number of entries and the same utc, tai
\* and smear in each.
LeapTableEquals(a, b) ==
  /\ Len(a) = Len(b)
  /\ \A i \in 1..Len(a) :
       /\ a[i].utc = b[i].utc
       /\ a[i].tai = b[i].tai
       /\ a[i].smear = b[i].smear

RECURSIVE LeapsOf(_, _, _)
\* The list ToProto's loop builds for one smear sign, walking the entries
\* from index i (the oldest) to the second.
LeapsOf(lt, i, sign) ==
  IF i <= 1 THEN <<>>
  ELSE (IF lt[i].smear = sign THEN <<ToJdnInt(lt[i].utc) - 1>> ELSE <<>>)
       \o LeapsOf(lt, i - 1, sign)

\* ToProto writing the JDN of the expiration day itself as end_jdn.
ToProto_ExpirationDay(lt) ==
  [positive_leaps |-> LeapsOf(lt, Len(lt), 1),
   negative_leaps |-> LeapsOf(lt, Len(lt), -1),
   end_jdn        |-> ToJdnInt(lt[1].utc)]

ToProto(lt) ==
  [positive_leaps |-> LeapsOf(lt, Len(lt), 1),
   negative_leaps |-> LeapsOf(lt, Len(lt), -1),
   end_jdn        |-> ToJdnInt(lt[1].utc) - 1]

\* The fields "%Y-%m-%d %H:%M:%E*S" prints of the Unix time t, civil day tm:
\* year, month, day, hour, minute, second and the fraction of the second.
FormatFields(tm, t) ==
  <<tm.tm_year + 1900, tm.tm_mon + 1, tm.tm_mday, tm.tm_hour,
    (t[2] \div 60) % 60, t[2] % 60, <<t[3], t[4], t[5]>>>>

\* The names of the infinities and of the zone of a timescale.
FutureName(timescale) ==
  IF timescale = "TAI" THEN "tai-infinite-future"
  ELSE IF timescale = "GPST" THEN "gpst-infinite-future"
  ELSE "infinite-future"

PastName(timescale) ==
  IF timescale = "TAI" THEN "tai-infinite-past"
  ELSE IF timescale = "GPST" THEN "gpst-infinite-past"
  ELSE "infinite-past"

ZoneName(timescale) ==
  IF timescale = "TAI" THEN "TAI"
  ELSE IF timescale = "GPST" THEN "GPST"
  ELSE "UTC"

\* The greatest and the least duration of a whole int64_t of nanoseconds:
\* 2^63 - 1 ns is 106751 days 85636.854775807 s.
NanosMax == <<106751, 85636, 854, 1551, 1228>>
NanosMin == SubD(NegD(NanosMax), Ticks(4))

\* d / Nanoseconds(1) followed by absl::FromUnixNanos: the int64_t count of
\* whole nanoseconds of d, truncated toward zero and saturated at the ends
\* of int64_t by absl::IDivDuration, taken as a duration again.
WholeNanos(d) ==
  IF Lt(NanosMax, d) THEN NanosMax
  ELSE IF Lt(d, NanosMin) THEN NanosMin
  ELSE IF d[1] >= 0 THEN <<d[1], d[2], d[3], d[4], d[5] - (d[5] % 4)>>
  ELSE Norm(<<d[1], d[2], d[3], d[4], d[5] + ((4 - (d[5] % 4)) % 4)>>)

\* ToUnixTime(TaiTime t), ToUnixTime(GpsTime t): the reading of the
\* timescale taken as a Unix time; the TAI epoch is 4383 days before the
\* Unix epoch and the GPS epoch 3657 days after it.  An absl::Time is
\* formatted as it is.
ToUnixTime(t, timescale) ==
  IF timescale = "TAI"
    THEN SubD(AddD(UnixEpoch, WholeNanos(SubD(t, TaiEpoch))), Days(4383))
  ELSE IF timescale = "GPST"
    THEN AddD(AddD(UnixEpoch, WholeNanos(SubD(t, GpsEpoch))), Days(3657))
  ELSE t

\* The default format applied to a Unix time and followed by the zone.
FormatDefault(unix, timescale) ==
  FormatFields(ToTM(unix), unix) \o <<ZoneName(timescale)>>

\* FormatTime(t) in the default format of its timescale: "TAI", "GPST", or
\* "UTC" for an absl::Time.
FormatTime(t, timescale) ==
  IF t = InfiniteFuture THEN <<FutureName(timescale)>>
  ELSE IF t = InfinitePast THEN <<PastName(timescale)>>
  ELSE FormatDefault(ToUnixTime(t, timescale), timescale)

RECURSIVE ReplaceAllZ(_, _, _)
\* The format with every "%Z" replaced from the left, as
\* absl::StrReplaceAll would do it: the "%Z" of "%%Z" included.
ReplaceAllZ(format, i, zone) ==
  IF i > Len(format) THEN <<>>
  ELSE IF format[i] = "%" /\ i < Len(format) /\ format[i + 1] = "Z"
    THEN zone \o ReplaceAllZ(format, i + 2, zone)
  ELSE <<format[i]>> \o ReplaceAllZ(format, i + 1, zone)

\* ReplaceZone as absl::StrReplaceAll.
ReplaceZone_StrReplaceAll(format, i, saw_percent, zone) ==
  ReplaceAllZ(format, i, zone)

RECURSIVE ReplaceZone(_, _, _, _)
\* The loop of FormatTime(format, t) over the characters of the format from
\* the i-th on: the string s in which "%Z" is the zone name.  A string is
\* the sequence of its characters, and the zone name one element of it.
ReplaceZone(format, i, saw_percent, zone) ==
  IF i > Len(format) THEN (IF saw_percent THEN <<"%">> ELSE <<>>)
  ELSE IF saw_percent
    THEN (IF format[i] = "Z" THEN zone ELSE <<"%", format[i]>>)
         \o ReplaceZone(format, i + 1, FALSE, zone)
  ELSE IF format[i] = "%" THEN ReplaceZone(format, i + 1, TRUE, zone)
  ELSE <<format[i]>> \o ReplaceZone(format, i + 1, FALSE, zone)

RECURSIVE AbslFormat(_, _, _)
\* absl::FormatTime(s, t, absl::UTCTimeZone()) from the i-th character of s
\* on, for the specifiers %Y, %% and %Z; any other character, a '%' before
\* an unknown character and a trailing '%' are copied.
AbslFormat(s, i, tm) ==
  IF i > Len(s) THEN <<>>
  ELSE IF s[i] = "%" /\ i < Len(s)
    THEN (IF s[i + 1] = "Y" THEN <<tm.tm_year + 1900>>
          ELSE IF s[i + 1] = "%" THEN <<"%">>
          ELSE IF s[i + 1] = "Z" THEN <<ZoneName("UTC")>>
          ELSE <<"%", s[i + 1]>>)
         \o AbslFormat(s, i + 2, tm)
  ELSE <<s[i]>> \o AbslFormat(s, i + 1, tm)

\* FormatTime(format, t) of a TaiTime, a GpsTime or an absl::Time.
FormatTimeWith(format, t, timescale) ==
  IF t = InfiniteFuture THEN <<FutureName(timescale)>>
  ELSE IF t = InfinitePast THEN <<PastName(timescale)>>
  ELSE IF timescale = "UTC" THEN AbslFormat(format, 1, ToTM(t))
  ELSE AbslFormat(ReplaceZone(format, 1, FALSE, <<ZoneName(timescale)>>), 1,
                  ToTM(ToUnixTime(t, timescale)))

RECURSIVE SmearSum(_, _)
\* The smears of the entries from index i on, added up.
SmearSum(lt, i) ==
  IF i > Len(lt) THEN 0 ELSE lt[i].smear + SmearSum(lt, i + 1)

\* LeapTable::DebugString: the expiration, then a line for each entry with
\* its utc, its tai, its smear and the TAI-UTC in force before it.
DebugString(lt) ==
  <<<<"LeapTable expires", FormatTime(LeapTableExpiration(lt), "UTC")>>>>
  \o [i \in 1..Len(lt) |->
        <<FormatTime(lt[i].utc, "UTC"), FormatTime(lt[i].tai, "TAI"),
          "smear", lt[i].smear, "TAI-UTC", 10 + SmearSum(lt, i)>>]

(***************************************************************************)
(* Interpolation inside a segment and past the expiration.  The parameter  *)
(* up is the side RoundDiv takes at an exact half tick.                    *)
(***************************************************************************)

\* x * smear for smear in {-1, 1}.
Signed(x, smear) == IF smear < 0 THEN NegD(x) ELSE x

\* s * Seconds(smear) for the double s == FDivDuration(d, n seconds).
SmearShare(d, n, smear, up) == Signed(RoundDiv(d, n, up), smear)

\* InterpolateTai dividing by 24 h whatever the smear, as the UTC direction
\* does.
InterpolateTai_Hours24(e, tai, up) ==
  LET d == SubD(e.tai, tai)
      t == SubD(e.utc, d)
  IN  IF e.smear # 0
      THEN AddD(t, SmearShare(d, SecondsPerDay, e.smear, up))
      ELSE t

\* Interpolate(e, tai): TAI to smeared UTC.
InterpolateTai(e, tai, up) ==
  LET d == SubD(e.tai, tai)
      t == SubD(e.utc, d)
  IN  IF e.smear # 0
      THEN AddD(t, SmearShare(d, SecondsPerDay + e.smear, e.smear, up))
      ELSE t

\* InterpolateUtc dividing by the TAI length of the smear, 86400 + smear
\* seconds, as the TAI direction does.
InterpolateUtc_TaiLength(e, utc, up) ==
  LET d == SubD(e.utc, utc)
      t == SubD(e.tai, d)
  IN  IF e.smear # 0
      THEN SubD(t, SmearShare(d, SecondsPerDay + e.smear, e.smear, up))
      ELSE t

\* Interpolate(e, utc): smeared UTC to TAI.
InterpolateUtc(e, utc, up) ==
  LET d == SubD(e.utc, utc)
      t == SubD(e.tai, d)
  IN  IF e.smear # 0
      THEN SubD(t, SmearShare(d, SecondsPerDay, e.smear, up))
      ELSE t

\* The assertions of Interpolate(e, x) for d == boundary minus input and the
\* divisor of n seconds: d >= 0 and, in a smear, 0 <= s <= 1.
InterpolateAsserts(d, n, smear) ==
  /\ Le(ZeroDuration, d)
  /\ smear # 0 => Le(d, Seconds(n))

\* Returns true if t is within twelve hours before the end of the month.
IsJustBeforeMonthEnd(t) ==
  IF t.tm_hour < 12 THEN FALSE
  ELSE CASE t.tm_mon = 0  -> t.tm_mday = 31
         [] t.tm_mon = 1  -> IF t.tm_year % 4 = 0
                                /\ (t.tm_year % 100 # 0 \/ t.tm_year % 400 = 0)
                             THEN t.tm_mday = 29
                             ELSE t.tm_mday = 28
         [] t.tm_mon = 2  -> t.tm_mday = 31
         [] t.tm_mon = 3  -> t.tm_mday = 30
         [] t.tm_mon = 4  -> t.tm_mday = 31
         [] t.tm_mon = 5  -> t.tm_mday = 30
         [] t.tm_mon = 6  -> t.tm_mday = 31
         [] t.tm_mon = 7  -> t.tm_mday = 31
         [] t.tm_mon = 8  -> t.tm_mday = 30
         [] t.tm_mon = 9  -> t.tm_mday = 31
         [] t.tm_mon = 10 -> t.tm_mday = 30
         [] t.tm_mon = 11 -> t.tm_mday = 31
         [] OTHER -> FALSE

\* Advances a leap table entry into the future: <<neg, pos>>, the entries as
\* if a negative, or a positive, leap second happens at every intervening
\* month.
\* neg and pos once their utc, the leap count and the smear are known.
AdvancedEntries(e, utc, leaps, smear) ==
  <<Entry(utc, SubD(AddD(e.tai, SubD(utc, e.utc)), Seconds(leaps)), -smear),
    Entry(utc, AddD(AddD(e.tai, SubD(utc, e.utc)), Seconds(leaps)), smear)>>

\* The three branches of Advance, on the broken-down times e_tm and t_tm;
\* before is IsJustBeforeMonthEnd(t_tm).
AdvanceTM(e, e_tm, t_tm, before) ==
  LET leaps == (t_tm.tm_year - e_tm.tm_year) * 12 + (t_tm.tm_mon - e_tm.tm_mon)
      year  == t_tm.tm_year + 1900
      month == t_tm.tm_mon + 1
      day   == t_tm.tm_mday
  IN  IF before
      THEN AdvancedEntries(e,
                           FromDateTime(IF month = 12 THEN year + 1 ELSE year,
                                        IF month = 12 THEN 1 ELSE month + 1, 1, 12),
                           leaps + 1, 1)
      ELSE IF day = 1 /\ t_tm.tm_hour < 12
      THEN AdvancedEntries(e, FromDateTime(year, month, day, 12), leaps, 1)
      ELSE AdvancedEntries(e, FromDateTime(year, month, day + 1, 12), leaps, 0)

Advance(e, t) ==
  AdvanceTM(e, ToTM(e.utc), ToTM(t), IsJustBeforeMonthEnd(ToTM(t)))

\* The assertions of Advance(e, t).
AdvanceAsserts(e, t) == Lt(e.utc, t) /\ e.smear = 0

\* LookupIndex whose loop stops at the last entry instead of running off the
\* end.
LookupIndex_StopsAtLast(lt, f, x) ==
  LET hits == {i \in 2..Len(lt) : Le(lt[i][f], x)}
  IN  IF hits = {} THEN Len(lt) ELSE CHOOSE i \in hits : \A j \in hits : i <= j

\* The index (from 1) at which the lookup loop over entries 2..n stops: the
\* first whose time, in field f, is not after x; 0 when it runs off the end.
LookupIndex(lt, f, x) ==
  LET hits == {i \in 2..Len(lt) : Le(lt[i][f], x)}
  IN  IF hits = {} THEN 0 ELSE CHOOSE i \in hits : \A j \in hits : i <= j

(***************************************************************************)
(* The conversions of LeapTable.  An optional is <<>> (nullopt) or <<v>>,  *)
(* a pair is <<first, second>>.                                            *)
(***************************************************************************)

\* FutureProofSmear testing for a time before its epoch ahead of the test for
\* the infinite past.
FutureProofSmear_EpochFirst(lt, t, timescale, up) ==
  LET tai        == ToTaiTime(t, timescale)
      expiration == lt[1]
      i          == LookupIndex(lt, "tai", tai)
      smeared    == InterpolateTai(lt[i - 1], tai, up)
      advanced   == Advance(expiration,
                            AddD(expiration.utc, SubD(tai, expiration.tai)))
  IN  IF t = InfiniteDuration THEN <<InfiniteFuture, InfiniteFuture>>
      ELSE IF Lt(t, ZeroDuration) THEN <<InfinitePast, InfiniteFuture>>
      ELSE IF t = NegInfiniteDuration THEN <<InfinitePast, InfinitePast>>
      ELSE IF Le(tai, expiration.tai)
           THEN (IF i = 0 THEN <<InfinitePast, InfiniteFuture>>
                 ELSE <<smeared, smeared>>)
      ELSE <<InterpolateTai(advanced[2], tai, up),
             InterpolateTai(advanced[1], tai, up)>>

FutureProofSmear(lt, t, timescale, up) ==
  LET tai        == ToTaiTime(t, timescale)
      expiration == lt[1]
      i          == LookupIndex(lt, "tai", tai)
      smeared    == InterpolateTai(lt[i - 1], tai, up)
      advanced   == Advance(expiration,
                            AddD(expiration.utc, SubD(tai, expiration.tai)))
  IN  IF t = InfiniteDuration THEN <<InfiniteFuture, InfiniteFuture>>
      ELSE IF t = NegInfiniteDuration THEN <<InfinitePast, InfinitePast>>
      ELSE IF Lt(t, ZeroDuration) THEN <<InfinitePast, InfiniteFuture>>
      ELSE IF Le(tai, expiration.tai)
           THEN (IF i = 0 THEN <<InfinitePast, InfiniteFuture>>
                 ELSE <<smeared, smeared>>)
      ELSE <<InterpolateTai(advanced[2], tai, up),
             InterpolateTai(advanced[1], tai, up)>>

FutureProofUnsmear(lt, utc, up) ==
  LET expiration == lt[1]
      i          == LookupIndex(lt, "utc", utc)
      unsmeared  == InterpolateUtc(lt[i - 1], utc, up)
      advanced   == Advance(expiration, utc)
  IN  IF utc = InfiniteFuture THEN <<TaiInfiniteFuture, TaiInfiniteFuture>>
      ELSE IF utc = InfinitePast THEN <<TaiInfinitePast, TaiInfinitePast>>
      ELSE IF Le(utc, expiration.utc)
           THEN (IF i = 0 THEN <<TaiInfinitePast, TaiInfiniteFuture>>
                 ELSE <<unsmeared, unsmeared>>)
      ELSE <<InterpolateUtc(advanced[1], utc, up),
             InterpolateUtc(advanced[2], utc, up)>>

\* GpsInterval refusing the GPS epoch itself (<= for <).
GpsInterval_Le(unsmeared) ==
  IF Le(unsmeared[1], ToTaiTime(GpsEpoch, "GPST"))
  THEN <<GpsInfinitePast, GpsInfiniteFuture>>
  ELSE <<ToGpsTime(unsmeared[1], "TAI"), ToGpsTime(unsmeared[2], "TAI")>>

\* The GPS interval of the TAI interval unsmeared.
GpsInterval(unsmeared) ==
  IF Lt(unsmeared[1], ToTaiTime(GpsEpoch, "GPST"))
  THEN <<GpsInfinitePast, GpsInfiniteFuture>>
  ELSE <<ToGpsTime(unsmeared[1], "TAI"), ToGpsTime(unsmeared[2], "TAI")>>

FutureProofUnsmearToGps(lt, utc, up) ==
  IF utc = InfiniteFuture THEN <<GpsInfiniteFuture, GpsInfiniteFuture>>
  ELSE IF utc = InfinitePast THEN <<GpsInfinitePast, GpsInfinitePast>>
  ELSE GpsInterval(FutureProofUnsmear(lt, utc, up))

\* Exact returning the first endpoint without comparing the two.
Exact_First(interval) == <<interval[1]>>

\* The body shared by Smear, Unsmear and UnsmearToGps: the interval's first
\* endpoint when the two are equal, nullopt otherwise.
Exact(interval) ==
  IF interval[1] # interval[2] THEN <<>> ELSE <<interval[1]>>

\* Smear reading the count of a GpsTime as if it were a TaiTime.
Smear_AsTai(lt, t, timescale, up) == Exact(FutureProofSmear(lt, t, "TAI", up))

Smear(lt, t, timescale, up) == Exact(FutureProofSmear(lt, t, timescale, up))

Unsmear(lt, utc, up) == Exact(FutureProofUnsmear(lt, utc, up))

UnsmearToGps(lt, utc, up) == Exact(FutureProofUnsmearToGps(lt, utc, up))

\* Whether every assertion on the path of FutureProofUnsmear(utc) holds.
UnsmearAsserts(lt, utc) ==
  LET i        == LookupIndex(lt, "utc", utc)
      advanced == Advance(lt[1], utc)
  IN  IF IsInf(utc) THEN TRUE
      ELSE IF Le(utc, lt[1].utc)
           THEN i = 0 \/ InterpolateAsserts(SubD(lt[i - 1].utc, utc),
                                            SecondsPerDay, lt[i - 1].smear)
      ELSE /\ AdvanceAsserts(lt[1], utc)
           /\ InterpolateAsserts(SubD(advanced[1].utc, utc), SecondsPerDay,
                                 advanced[1].smear)

\* Whether every assertion on the path of FutureProofSmear(t) holds.
SmearAsserts(lt, t, timescale) ==
  LET tai      == ToTaiTime(t, timescale)
      i        == LookupIndex(lt, "tai", tai)
      est      == AddD(lt[1].utc, SubD(tai, lt[1].tai))
      advanced == Advance(lt[1], est)
  IN  IF IsInf(t) \/ Lt(t, ZeroDuration) THEN TRUE
      ELSE IF Le(tai, lt[1].tai)
           THEN i = 0 \/ InterpolateAsserts(SubD(lt[i - 1].tai, tai),
                                            SecondsPerDay + lt[i - 1].smear,
                                            lt[i - 1].smear)
      ELSE /\ AdvanceAsserts(lt[1], est)
           /\ \A k \in 1..2 :
                InterpolateAsserts(SubD(advanced[k].tai, tai),
                                   SecondsPerDay + advanced[k].smear,
                                   advanced[k].smear)

(***************************************************************************)
(* The program: a caller that builds leap tables from catalogs and queries *)
(* the table it holds.                                                     *)
(***************************************************************************)

VARIABLES
  lt,       \* the table the caller holds: its entries_, or Null
  call,     \* the last call: [fn, ts, arg], ts the timescale of arg
  ret,      \* what the last call returned
  half,     \* the side its rounding took at an exact half tick
  aborted   \* whether an assertion stopped it (a build without NDEBUG)

vars == <<lt, call, ret, half, aborted>>

\* The most leaps a catalog drawn by the model carries.
MaxLeaps == 2

\* The most month ends by which an extended catalog outlives a table.
MaxExtMonths == 3

\* Leap days of the drawn catalogs: 1972-01-31, 1972-02-29 and 1972-06-30,
\* which end a month, and 1972-07-01, which does not.
LeapDays == {2441348, 2441377, 2441499, 2441500}

\* end_jdn of the drawn catalogs: unset, below kMinJdn, kMinJdn (1972-01-30),
\* 1972-07-30, 1974-12-31 (a month end itself), 2000-01-30, 2000-02-28,
\* kMaxJdn (9999-12-30), 10000-01-30 and 7654321.
EndJdns == {0, 2441346, 2441347, 2441529, 2442413, 2451574, 2451603,
            5373483, 5373514, 7654321}

\* The catalog of LeapTableTest.
TestProto ==
  [positive_leaps |-> <<2441499, 2441864, 2442413, 2442778, 2443144, 2443509,
                        2443874, 2443905, 2443933, 2443964>>,
   negative_leaps |-> <<2442048>>,
   end_jdn        |-> 2446065]

SeqsOfLen(S, n) == [1..n -> S]

Protos ==
  {[positive_leaps |-> p, negative_leaps |-> q, end_jdn |-> e] :
     p \in UNION {SeqsOfLen(LeapDays, n) : n \in 0..MaxLeaps},
     q \in UNION {SeqsOfLen(LeapDays, n) : n \in 0..MaxLeaps},
     e \in EndJdns}

\* The catalog of AdjacentLeapSecondsTest: leaps at the ends of January,
\* February, March and April 1972.
AdjacentProto ==
  [positive_leaps |-> <<2441348, 2441377, 2441438>>,
   negative_leaps |-> <<2441408>>,
   end_jdn        |-> 2441468]

\* The catalogs of DuplicateLeap and ConflictingLeapSign with one more leap,
\* 1973-06-30, in every order of the list.
DuplicateProtos ==
  {[positive_leaps |-> p, negative_leaps |-> q, end_jdn |-> 2442412] :
     p \in SeqsOfLen({2441499, 2441864}, 3), q \in {<<>>, <<2441499>>}}

\* Catalogs of one leap on a day late in a February and the latest end_jdn:
\* 1972-02-28, 1973-02-27, 1973-02-28, 2000-02-28, 2000-02-29, 2100-02-27
\* and 2100-02-28.
FebruaryProtos ==
  {[positive_leaps |-> <<jdn>>, negative_leaps |-> <<>>, end_jdn |-> kMaxJdn] :
     jdn \in {2441376, 2441741, 2441742, 2451603, 2451604, 2488127, 2488128}}

BoundedProtos ==
  {p \in Protos : Len(p.positive_leaps) + Len(p.negative_leaps) <= MaxLeaps}
  \cup {TestProto, AdjacentProto} \cup DuplicateProtos \cup FebruaryProtos

\* Distances below a segment boundary: none, one tick, 10.8 us and 54 us
\* (odd multiples of half of 86400 ticks), a tick less and a tick more than
\* 10.8 us, 10 s, 6 h, 12 h and 18 h.
BackOffsets ==
  {ZeroDuration, Ticks(1), Ticks(43199), Ticks(43200), Ticks(43201),
   Ticks(216000), Seconds(10), Hours(6), Hours(12), Hours(18)}

\* Distances past the expiration.
FwdOffsets ==
  {Ticks(1), Ticks(43200), Ticks(43201), Seconds(1), Hours(6), Hours(12),
   Hours(18), SubD(Hours(24), Milliseconds(500)), Hours(24), Hours(48),
   Hours(72), AddD(Days(28), Hours(6)), AddD(Days(29), Hours(6)), Days(45)}

UtcInputs(t) ==
  {SubD(t[i].utc, d) : i \in 1..Len(t), d \in BackOffsets}
  \cup {AddD(t[1].utc, d) : d \in FwdOffsets}
  \cup {SubD(ModernUtcEpoch, Seconds(1)), UtcGpsEpoch,
        SubD(UtcGpsEpoch, Seconds(1)), InfiniteFuture, InfinitePast}

TaiInputs(t) ==
  {SubD(t[i].tai, d) : i \in 1..Len(t), d \in BackOffsets}
  \cup {AddD(t[1].tai, d) : d \in FwdOffsets}
  \cup {SubD(TaiModernUtcEpoch, Seconds(1)), TaiGpsEpoch,
        SubD(TaiGpsEpoch, Seconds(1)), SubD(TaiEpoch, Seconds(1)),
        TaiInfiniteFuture, TaiInfinitePast}

GpsInputs(t) == {ToGpsTime(x, "TAI") : x \in TaiInputs(t)}

Init ==
  /\ lt = Null
  /\ call = [fn |-> "none", ts |-> "none", arg |-> <<>>]
  /\ ret = <<>>
  /\ half = FALSE
  /\ aborted = FALSE

\* The caller is between two calls.
Idle == call.fn = "none"

\* The caller is done with the result of its last call.
DropResult ==
  /\ ~Idle
  /\ call' = [fn |-> "none", ts |-> "none", arg |-> <<>>]
  /\ ret' = <<>>
  /\ half' = FALSE
  /\ aborted' = FALSE
  /\ UNCHANGED lt

\* unique_ptr<LeapTable> lt = NewLeapTableFromProto(proto).
CallNewLeapTableFromProto ==
  \E proto \in BoundedProtos :
    /\ Idle
    /\ \E sorted \in SortOrders(ProtoEntries(proto)) :
         lt' = Validate(proto, JdnToTime(proto.end_jdn + 1), sorted)
    /\ call' = [fn |-> "NewLeapTableFromProto", ts |-> "proto", arg |-> proto]
    /\ ret' = lt'
    /\ half' = FALSE
    /\ aborted' = FALSE

\* Returns for a method that keeps the entry it found at the front of
\* entries_, as a lookup cache would.
Returns_MoveToFront(fn, ts, arg, value, asserts, up) ==
  /\ Idle
  /\ \E debug \in BOOLEAN :
       /\ aborted' = (debug /\ ~asserts)
       /\ ret' = IF debug /\ ~asserts THEN <<>> ELSE value
  /\ call' = [fn |-> fn, ts |-> ts, arg |-> arg]
  /\ half' = up
  /\ lt' = <<lt[Len(lt)]>> \o SubSeq(lt, 1, Len(lt) - 1)

\* A call on the table with result value; a failed assertion aborts it in a
\* build that keeps assertions and is skipped in one that drops them.
Returns(fn, ts, arg, value, asserts, up) ==
  /\ Idle
  /\ \E debug \in BOOLEAN :
       /\ aborted' = (debug /\ ~asserts)
       /\ ret' = IF debug /\ ~asserts THEN <<>> ELSE value
  /\ call' = [fn |-> fn, ts |-> ts, arg |-> arg]
  /\ half' = up
  /\ UNCHANGED lt

CallUnsmear ==
  /\ Idle /\ lt # Null
  /\ \E utc \in UtcInputs(lt), up \in BOOLEAN :
       Returns("Unsmear", "UTC", utc, Unsmear(lt, utc, up),
               UnsmearAsserts(lt, utc), up)

CallUnsmearToGps ==
  /\ Idle /\ lt # Null
  /\ \E utc \in UtcInputs(lt), up \in BOOLEAN :
       Returns("UnsmearToGps", "UTC", utc, UnsmearToGps(lt, utc, up),
               UnsmearAsserts(lt, utc), up)

CallFutureProofUnsmear ==
  /\ Idle /\ lt # Null
  /\ \E utc \in UtcInputs(lt), up \in BOOLEAN :
       Returns("FutureProofUnsmear", "UTC", utc, FutureProofUnsmear(lt, utc, up),
               UnsmearAsserts(lt, utc), up)

CallFutureProofUnsmearToGps ==
  /\ Idle /\ lt # Null
  /\ \E utc \in UtcInputs(lt), up \in BOOLEAN :
       Returns("FutureProofUnsmearToGps", "UTC", utc,
               FutureProofUnsmearToGps(lt, utc, up),
               UnsmearAsserts(lt, utc), up)

\* Smear(t) for a TaiTime or a GpsTime.  The divisions by 86399 s and
\* 86401 s have no exact half ticks.
CallSmear ==
  /\ Idle /\ lt # Null
  /\ \E ts \in {"TAI", "GPST"} :
       \E t \in (IF ts = "TAI" THEN TaiInputs(lt) ELSE GpsInputs(lt)) :
         Returns("Smear", ts, t, Smear(lt, t, ts, FALSE),
                 SmearAsserts(lt, t, ts), FALSE)

CallFutureProofSmear ==
  /\ Idle /\ lt # Null
  /\ \E ts \in {"TAI", "GPST"} :
       \E t \in (IF ts = "TAI" THEN TaiInputs(lt) ELSE GpsInputs(lt)) :
         Returns("FutureProofSmear", ts, t, FutureProofSmear(lt, t, ts, FALSE),
                 SmearAsserts(lt, t, ts), FALSE)

CallToProto ==
  /\ Idle /\ lt # Null
  /\ Returns("ToProto", "none", <<>>, ToProto(lt), TRUE, FALSE)

CallExpiration ==
  /\ Idle /\ lt # Null
  /\ Returns("expiration", "none", <<>>, LeapTableExpiration(lt), TRUE, FALSE)

CallDebugString ==
  /\ Idle /\ lt # Null
  /\ Returns("DebugString", "none", <<>>, DebugString(lt), TRUE, FALSE)

\* lt == other, for the table other of a catalog.
CallEquals ==
  /\ Idle /\ lt # Null
  /\ \E proto \in {ToProto(lt), TestProto} :
       Returns("operator==", "proto", proto,
               LeapTableEquals(lt, NewLeapTableFromProto(proto)), TRUE, FALSE)

Next ==
  \/ CallNewLeapTableFromProto
  \/ CallUnsmear
  \/ CallUnsmearToGps
  \/ CallFutureProofUnsmear
  \/ CallFutureProofUnsmearToGps
  \/ CallSmear
  \/ CallFutureProofSmear
  \/ CallToProto
  \/ CallExpiration
  \/ CallDebugString
  \/ CallEquals
  \/ DropResult

Spec == Init /\ [][Next]_vars

(***************************************************************************)
(* The arithmetic of durations and the conversions between TaiTime and     *)
(* GpsTime, which take no table: a caller applying them to operands drawn  *)
(* from both ends and the middle of the finite range.                      *)
(***************************************************************************)

\* Seconds(kint64max) and Seconds(kint64min): the largest and the smallest
\* whole numbers of seconds of the finite range.
SecondsMax == <<InfDays - 1, SecondsPerDay - 1, 0, 0, 0>>
SecondsMin == <<-InfDays, 0, 0, 0, 0>>

\* Nanoseconds(999999999).
AlmostSecond == SubD(Seconds(1), Ticks(4))

DurationInputs ==
  {ZeroDuration, Seconds(1), Seconds(-1), Ticks(1), AlmostSecond,
   NegD(AlmostSecond), SecondsMax, SecondsMin, NegD(SecondsMax),
   AddD(SecondsMax, AlmostSecond), InfiniteDuration, NegInfiniteDuration}

\* Counts since an epoch: the times of TimeTest.Conversions, the epochs, the
\* ends of the finite range and the times one GPS offset and one tick away
\* from them, and the infinities.
TimeInputs ==
  {ZeroDuration, AddD(Days(12345), Seconds(19)), Days(4305), Seconds(-1),
   TaiGpsEpoch, NegD(TaiGpsEpoch), Ticks(1),
   SecondsMax, SubD(SecondsMax, TaiOffset("GPST")),
   AddD(SubD(SecondsMax, TaiOffset("GPST")), Seconds(1)),
   SecondsMin, AddD(SecondsMin, TaiOffset("GPST")),
   SubD(AddD(SecondsMin, TaiOffset("GPST")), Ticks(1)),
   InfiniteDuration, NegInfiniteDuration}

\* lhs + rhs on unsmear::Duration.
CallAdd ==
  \E lhs \in DurationInputs, rhs \in DurationInputs :
    Returns("operator+", "Duration", <<lhs, rhs>>, AddD(lhs, rhs), TRUE, FALSE)

\* lhs - rhs on unsmear::Duration.
CallSubtract ==
  \E lhs \in DurationInputs, rhs \in DurationInputs :
    Returns("operator-", "Duration", <<lhs, rhs>>, SubD(lhs, rhs), TRUE, FALSE)

\* -d on unsmear::Duration.
CallNegate ==
  \E d \in DurationInputs :
    Returns("operator- (unary)", "Duration", d, NegD(d), TRUE, FALSE)

CallToTaiTime ==
  \E ts \in {"TAI", "GPST"}, t \in TimeInputs :
    Returns("ToTaiTime", ts, t, ToTaiTime(t, ts), TRUE, FALSE)

CallToGpsTime ==
  \E ts \in {"TAI", "GPST"}, t \in TimeInputs :
    Returns("ToGpsTime", ts, t, ToGpsTime(t, ts), TRUE, FALSE)

NextArith ==
  \/ CallAdd
  \/ CallSubtract
  \/ CallNegate
  \/ CallToTaiTime
  \/ CallToGpsTime
  \/ DropResult

SpecArith == Init /\ [][NextArith]_vars

(***************************************************************************)
(* A third specification applies the formatting functions of format.cc to *)
(* times of the three timescales.                                          *)
(***************************************************************************)

MaxFormatLen == 4

FormatChars == {"%", "Z", "Y", " "}

\* The format of TimeTest.EpochsAndFormatting, without its %V.
TestFormat ==
  <<"%", "Y", " ", "%", "Z", " ", "%", "%", " ", "%", "%", "%", " ",
    "%", "%", "Z", " ", "%">>

Formats ==
  UNION {SeqsOfLen(FormatChars, n) : n \in 0..MaxFormatLen} \cup {TestFormat}

\* The TAI of the expiration of a table that ends at kMaxJdn, without leaps
\* after 1972: 9999-12-31 12:00:10 TAI.
LastExpirationTai ==
  AddD(AddD(JdnToTime(kMaxJdn + 1), Days(4383)), Seconds(10))

FormatInputs ==
  {ZeroDuration, TaiModernUtcEpoch, TaiGpsEpoch, UtcGpsEpoch,
   NegD(TaiGpsEpoch), Ticks(1), Ticks(-1), SubD(Milliseconds(-1), Ticks(5)),
   NanosMax, AddD(NanosMax, Ticks(4)), NanosMin, SubD(NanosMin, Ticks(4)),
   LastExpirationTai, InfiniteDuration, NegInfiniteDuration}

\* FormatTime(t) of a TaiTime, a GpsTime or an absl::Time.
CallFormatTime ==
  \E ts \in {"TAI", "GPST", "UTC"}, t \in FormatInputs :
    Returns("FormatTime", ts, t, FormatTime(t, ts), TRUE, FALSE)

\* FormatTime(format, t) of a TaiTime, a GpsTime or an absl::Time.
CallFormatTimeWith ==
  \E ts \in {"TAI", "GPST", "UTC"}, format \in Formats,
     t \in {TaiModernUtcEpoch, InfiniteDuration, NegInfiniteDuration} :
    Returns("FormatTime(format)", ts, <<format, t>>,
            FormatTimeWith(format, t, ts), TRUE, FALSE)

NextFormat ==
  \/ CallFormatTime
  \/ CallFormatTimeWith
  \/ DropResult

SpecFormat == Init /\ [][NextFormat]_vars

(***************************************************************************)
(* The properties.  Each is a predicate on the state a call leaves: the    *)
(* table lt, the call's argument call.arg, its result ret and the side     *)
(* half its rounding took.                                                 *)
(***************************************************************************)

Finite(x) == ~IsInf(x)

\* The last call was fn and the caller holds its result or its abort.
Called(fn) == call.fn = fn

\* call.arg is a UTC time within the table: ModernUtcEpoch <= arg <= expiration.
ArgInTable == Le(ModernUtcEpoch, call.arg) /\ Le(call.arg, lt[1].utc)

\* call.arg is a finite UTC time past the expiration.
ArgPastExpiration == Finite(call.arg) /\ Lt(lt[1].utc, call.arg)

\* utc lies in a segment closed by an entry of smear sign.
InSmear(utc, sign) ==
  LET i == LookupIndex(lt, "utc", utc)
  IN  i >= 2 /\ lt[i - 1].smear = sign

\* utc lies, in a smear segment, where the share of the leap second is
\* exactly half way between two ticks: an odd multiple of 10.8 us before the
\* segment's end.
AtHalfTick(utc) ==
  LET i == LookupIndex(lt, "utc", utc)
  IN  i >= 2 /\ lt[i - 1].smear # 0
      /\ IsTie(SubD(lt[i - 1].utc, utc), SecondsPerDay)

\* C1 (as stated): for every table and every UTC time t with
\* ModernUtcEpoch <= t <= expiration, Unsmear(t) has a value,
\* Smear(*Unsmear(t)) has a value and equals t exactly, and
\* Unsmear(*Smear(*Unsmear(t))) == *Unsmear(t).
C1_RoundTripExact ==
  (Called("Unsmear") /\ ArgInTable) =>
    /\ ~aborted
    /\ ret # <<>>
    /\ LET s == Smear(lt, ret[1], "TAI", half)
       IN  /\ s = <<call.arg>>
           /\ Unsmear(lt, s[1], half) = ret

\* C1 (amended): for every table and every UTC time t with
\* ModernUtcEpoch <= t <= expiration, Unsmear(t) has a value,
\* Smear(*Unsmear(t)) has a value, which equals t exactly unless t lies in a
\* negative smear window an odd multiple of 10.8 us before its end, where it
\* is one tick (1/4 ns) away from t, and
\* Unsmear(*Smear(*Unsmear(t))) == *Unsmear(t).
C1_RoundTrip ==
  (Called("Unsmear") /\ ArgInTable) =>
    /\ ~aborted
    /\ ret # <<>>
    /\ LET s == Smear(lt, ret[1], "TAI", half)
       IN  /\ s # <<>>
           /\ IF InSmear(call.arg, -1) /\ AtHalfTick(call.arg)
              THEN SubD(s[1], call.arg) \in {Ticks(1), Ticks(-1)}
              ELSE s[1] = call.arg
           /\ Unsmear(lt, s[1], half) = ret

\* An Unsmear of a time in a negative smear window, 10.8 us before its end,
\* whose TAI value smears back one tick away from it.
C1_Witness ==
  /\ Called("Unsmear") /\ ArgInTable /\ ~aborted /\ ret # <<>>
  /\ InSmear(call.arg, -1)
  /\ LET i == LookupIndex(lt, "utc", call.arg)
     IN  SubD(lt[i - 1].utc, call.arg) = Ticks(43200)
  /\ Smear(lt, ret[1], "TAI", half) # <<call.arg>>
  /\ Unsmear(lt, Smear(lt, ret[1], "TAI", half)[1], half) = ret

\* The calendar month, counted from year 0, of a UTC time.
MonthIndex(t) == (ToTM(t).tm_year + 1900) * 12 + ToTM(t).tm_mon

\* The JDN of the last day of the k-th month after the month of t.
MonthEndJdn(t, k) ==
  LET m == MonthIndex(t) + k + 1
  IN  DaysFromCivil(m \div 12, (m % 12) + 1, 1) - 1 + 2440588

RECURSIVE ExtLeaps(_, _, _, _)
\* The leap days of sign among the month ends jdns, chosen by signs[k].
ExtLeaps(jdns, signs, k, sign) ==
  IF k > Len(jdns) THEN <<>>
  ELSE (IF signs[k] = sign THEN <<jdns[k]>> ELSE <<>>)
       \o ExtLeaps(jdns, signs, k + 1, sign)

\* The catalogs that extend table t by n months: its leaps, a leap of sign
\* signs[k] (or none) at each of the n month ends from its expiration on, and
\* the end_jdn n months later.
Extension(t, n, signs) ==
  LET jdns == [k \in 1..n |-> MonthEndJdn(t[1].utc, k - 1)]
      base == ToProto(t)
  IN  [positive_leaps |-> base.positive_leaps \o ExtLeaps(jdns, signs, 1, 1),
       negative_leaps |-> base.negative_leaps \o ExtLeaps(jdns, signs, 1, -1),
       end_jdn        |-> MonthEndJdn(t[1].utc, n) - 1]

Uniform(n, sign) == [k \in 1..n |-> sign]

\* C2: a future-proof interval bounds every possible future.  For a table L,
\* every table L2 that extends it with any choice of +1, -1 or no leap at
\* each month end from L's expiration on, and every utc with
\* L.expiration() < utc <= L2.expiration() (L2's end_jdn within kMaxJdn),
\* FutureProofUnsmear(utc).first <= *L2.Unsmear(utc)
\* <= FutureProofUnsmear(utc).second; the lower endpoint is attained when
\* every month end carries a negative leap and the upper one when every
\* month end carries a positive leap.
C2_BoundsEveryFuture ==
  (Called("FutureProofUnsmear") /\ ArgPastExpiration) =>
    /\ ~aborted
    /\ \A n \in 1..MaxExtMonths :
         LET end == JdnToTime(MonthEndJdn(lt[1].utc, n))
         IN  (Le(call.arg, end) /\ MonthEndJdn(lt[1].utc, n) - 1 <= kMaxJdn) =>
               /\ \A signs \in [1..n -> {-1, 0, 1}] :
                    LET L2 == NewLeapTableFromProto(Extension(lt, n, signs))
                        v  == Unsmear(L2, call.arg, half)
                    IN  /\ L2 # Null
                        /\ v # <<>>
                        /\ Le(ret[1], v[1])
                        /\ Le(v[1], ret[2])
               /\ Unsmear(NewLeapTableFromProto(Extension(lt, n, Uniform(n, -1))),
                          call.arg, half) = <<ret[1]>>
               /\ Unsmear(NewLeapTableFromProto(Extension(lt, n, Uniform(n, 1))),
                          call.arg, half) = <<ret[2]>>

\* C3: inside the table the future-proof and exact APIs agree.  For every
\* finite input for which Unsmear, UnsmearToGps or Smear returns a value x,
\* the corresponding FutureProof call returns exactly the pair (x, x), so an
\* exact API returns a value only when the two endpoints are equal.
C3_ExactAgrees ==
  /\ (Called("Unsmear") /\ Finite(call.arg) /\ ret # <<>>) =>
       FutureProofUnsmear(lt, call.arg, half) = <<ret[1], ret[1]>>
  /\ (Called("UnsmearToGps") /\ Finite(call.arg) /\ ret # <<>>) =>
       FutureProofUnsmearToGps(lt, call.arg, half) = <<ret[1], ret[1]>>
  /\ (Called("Smear") /\ Finite(call.arg) /\ ret # <<>>) =>
       FutureProofSmear(lt, call.arg, call.ts, half) = <<ret[1], ret[1]>>

\* A Smear of a time inside a positive smear window returned a value, and a
\* finite interval with equal endpoints stands behind it.
C3_Witness ==
  /\ Called("Smear") /\ Finite(call.arg) /\ ret # <<>>
  /\ LET i == LookupIndex(lt, "tai", ToTaiTime(call.arg, call.ts))
     IN  i >= 2 /\ lt[i - 1].smear = 1
  /\ FutureProofSmear(lt, call.arg, call.ts, half) = <<ret[1], ret[1]>>

\* call.arg is a finite TaiTime or GpsTime later than the expiration's TAI.
TaiArgPastExpiration ==
  Finite(call.arg) /\ Lt(lt[1].tai, ToTaiTime(call.arg, call.ts))

\* C4: the expiration is the last exactly convertible instant.
\* Unsmear(expiration) and Smear of its TAI equivalent return values; for
\* every finite utc > expiration Unsmear(utc) and UnsmearToGps(utc) return
\* nullopt, and for every finite TaiTime or GpsTime later than the
\* expiration's TAI Smear returns nullopt; in those cases FutureProofUnsmear
\* and FutureProofSmear (of a time not before its own epoch) return a pair
\* of finite times with first < second.
C4_ExpirationIsLast ==
  /\ (Called("Unsmear") /\ call.arg = lt[1].utc) => ~aborted /\ ret # <<>>
  /\ (Called("Smear") /\ call.ts = "TAI" /\ call.arg = lt[1].tai) =>
       ~aborted /\ ret # <<>>
  /\ ((Called("Unsmear") \/ Called("UnsmearToGps")) /\ ArgPastExpiration) =>
       ~aborted /\ ret = <<>>
  /\ (Called("Smear") /\ TaiArgPastExpiration) => ~aborted /\ ret = <<>>
  /\ \/ Called("FutureProofUnsmear") /\ ArgPastExpiration
     \/ Called("FutureProofSmear") /\ TaiArgPastExpiration
          /\ Le(ZeroDuration, call.arg)
     => /\ ~aborted
        /\ Finite(ret[1]) /\ Finite(ret[2])
        /\ Lt(ret[1], ret[2])

\* C5: inputs before the modern UTC epoch are unconvertible.  For every
\* finite utc < ModernUtcEpoch, Unsmear(utc) is nullopt and
\* FutureProofUnsmear(utc) is (TaiInfinitePast, TaiInfiniteFuture); for every
\* finite TaiTime t < TaiModernUtcEpoch, Smear(t) is nullopt and
\* FutureProofSmear(t) is (InfinitePast, InfiniteFuture); at exactly the
\* epoch Unsmear(ModernUtcEpoch) == TaiModernUtcEpoch and
\* Smear(TaiModernUtcEpoch) == ModernUtcEpoch.
C5_BeforeModernUtcEpoch ==
  /\ (Called("Unsmear") /\ Finite(call.arg) /\ Lt(call.arg, ModernUtcEpoch)) =>
       ~aborted /\ ret = <<>>
  /\ (Called("FutureProofUnsmear") /\ Finite(call.arg)
        /\ Lt(call.arg, ModernUtcEpoch)) =>
       ~aborted /\ ret = <<TaiInfinitePast, TaiInfiniteFuture>>
  /\ (Called("Smear") /\ call.ts = "TAI" /\ Finite(call.arg)
        /\ Lt(call.arg, TaiModernUtcEpoch)) =>
       ~aborted /\ ret = <<>>
  /\ (Called("FutureProofSmear") /\ call.ts = "TAI" /\ Finite(call.arg)
        /\ Lt(call.arg, TaiModernUtcEpoch)) =>
       ~aborted /\ ret = <<InfinitePast, InfiniteFuture>>
  /\ (Called("Unsmear") /\ call.arg = ModernUtcEpoch) =>
       ~aborted /\ ret = <<TaiModernUtcEpoch>>
  /\ (Called("Smear") /\ call.ts = "TAI" /\ call.arg = TaiModernUtcEpoch) =>
       ~aborted /\ ret = <<ModernUtcEpoch>>

\* A FutureProofUnsmear of the second before the modern UTC epoch returned
\* the universal interval.
C5_Witness ==
  /\ Called("FutureProofUnsmear")
  /\ call.arg = SubD(ModernUtcEpoch, Seconds(1))
  /\ ~aborted
  /\ ret = <<TaiInfinitePast, TaiInfiniteFuture>>

\* The part of C6 below the GPS epoch: for every finite utc, if the lower
\* endpoint of FutureProofUnsmear(utc) is earlier than ToTaiTime(GpsEpoch())
\* then FutureProofUnsmearToGps(utc) is (GpsInfinitePast, GpsInfiniteFuture)
\* and UnsmearToGps(utc) is nullopt, also at ModernUtcEpoch; otherwise both
\* endpoints are moved by the constant TAI - GPST offset and keep their order.
\* For every finite GpsTime g < GpsEpoch(), Smear(g) is nullopt and
\* FutureProofSmear(g) is (InfinitePast, InfiniteFuture).
GpsFloor ==
  /\ (Called("FutureProofUnsmearToGps") /\ Finite(call.arg) /\ ~aborted) =>
       LET u == FutureProofUnsmear(lt, call.arg, half)
       IN  IF Lt(u[1], TaiGpsEpoch)
           THEN ret = <<GpsInfinitePast, GpsInfiniteFuture>>
           ELSE /\ ret = <<SubD(u[1], Seconds(8040 * 86400 + 19)),
                           SubD(u[2], Seconds(8040 * 86400 + 19))>>
                /\ Le(u[1], u[2])
                /\ Le(ret[1], ret[2])
  /\ (Called("UnsmearToGps") /\ Finite(call.arg) /\ ~aborted
        /\ Lt(FutureProofUnsmear(lt, call.arg, half)[1], TaiGpsEpoch)) =>
       ret = <<>>
  /\ (Called("UnsmearToGps") /\ call.arg = ModernUtcEpoch) =>
       /\ ~aborted /\ ret = <<>>
       /\ Unsmear(lt, call.arg, half) # <<>>
  /\ (Called("Smear") /\ call.ts = "GPST" /\ Finite(call.arg)
        /\ Lt(call.arg, GpsEpoch)) =>
       ~aborted /\ ret = <<>>
  /\ (Called("FutureProofSmear") /\ call.ts = "GPST" /\ Finite(call.arg)
        /\ Lt(call.arg, GpsEpoch)) =>
       ~aborted /\ ret = <<InfinitePast, InfiniteFuture>>

\* C6 (as stated): the GPS floor, and at exactly the GPS epoch all
\* conversions succeed: Smear(GpsEpoch()), Smear(TaiGpsEpoch()),
\* Unsmear(UtcGpsEpoch()) and UnsmearToGps(UtcGpsEpoch()) return values.
C6_GpsFloorAllTables ==
  /\ GpsFloor
  /\ (Called("Smear") /\ ToTaiTime(call.arg, call.ts) = TaiGpsEpoch) =>
       ~aborted /\ ret # <<>>
  /\ ((Called("Unsmear") \/ Called("UnsmearToGps")) /\ call.arg = UtcGpsEpoch) =>
       ~aborted /\ ret # <<>>

\* C6 (amended): the GPS floor, and at exactly the GPS epoch the conversions
\* succeed for a table that reaches it: when ToTaiTime(GpsEpoch()) is not
\* later than the expiration's TAI, Smear(GpsEpoch()) and Smear(TaiGpsEpoch())
\* return a value u with Unsmear(u) == TaiGpsEpoch() and
\* UnsmearToGps(u) == GpsEpoch(); u == UtcGpsEpoch(), and
\* UnsmearToGps(UtcGpsEpoch()) == GpsEpoch(), exactly when the table has
\* TAI - UTC = 19 s there, that is Unsmear(UtcGpsEpoch()) == TaiGpsEpoch().
C6_GpsFloor ==
  /\ GpsFloor
  /\ (Called("Smear") /\ ToTaiTime(call.arg, call.ts) = TaiGpsEpoch
        /\ Le(TaiGpsEpoch, lt[1].tai)) =>
       /\ ~aborted
       /\ ret # <<>>
       /\ Unsmear(lt, ret[1], half) = <<TaiGpsEpoch>>
       /\ UnsmearToGps(lt, ret[1], half) = <<GpsEpoch>>
       /\ ret[1] = UtcGpsEpoch <=> Unsmear(lt, UtcGpsEpoch, half) = <<TaiGpsEpoch>>
  /\ (Called("UnsmearToGps") /\ call.arg = UtcGpsEpoch /\ ~aborted) =>
       (ret = <<GpsEpoch>> <=> Unsmear(lt, UtcGpsEpoch, half) = <<TaiGpsEpoch>>)

\* A Smear of GpsEpoch() on a table that reaches it, with TAI - UTC = 19 s
\* there, returned UtcGpsEpoch().
C6_Witness ==
  /\ Called("Smear") /\ call.ts = "GPST" /\ call.arg = GpsEpoch
  /\ Le(TaiGpsEpoch, lt[1].tai)
  /\ ~aborted
  /\ ret = <<UtcGpsEpoch>>
  /\ UnsmearToGps(lt, ret[1], half) = <<GpsEpoch>>

\* C7: infinities pass through every conversion of every table.  Smear of
\* the infinite future (past) of TAI or GPST is absl::InfiniteFuture()
\* (InfinitePast()), Unsmear and UnsmearToGps of an infinite UTC time are the
\* same-signed TAI and GPS infinity, and each FutureProof variant returns
\* the pair whose two endpoints are both that infinity.
C7_Infinities ==
  /\ (Called("Smear") /\ call.arg = InfiniteDuration) =>
       ~aborted /\ ret = <<InfiniteFuture>>
  /\ (Called("Smear") /\ call.arg = NegInfiniteDuration) =>
       ~aborted /\ ret = <<InfinitePast>>
  /\ (Called("FutureProofSmear") /\ call.arg = InfiniteDuration) =>
       ~aborted /\ ret = <<InfiniteFuture, InfiniteFuture>>
  /\ (Called("FutureProofSmear") /\ call.arg = NegInfiniteDuration) =>
       ~aborted /\ ret = <<InfinitePast, InfinitePast>>
  /\ (Called("Unsmear") /\ call.arg = InfiniteFuture) =>
       ~aborted /\ ret = <<TaiInfiniteFuture>>
  /\ (Called("Unsmear") /\ call.arg = InfinitePast) =>
       ~aborted /\ ret = <<TaiInfinitePast>>
  /\ (Called("UnsmearToGps") /\ call.arg = InfiniteFuture) =>
       ~aborted /\ ret = <<GpsInfiniteFuture>>
  /\ (Called("UnsmearToGps") /\ call.arg = InfinitePast) =>
       ~aborted /\ ret = <<GpsInfinitePast>>
  /\ (Called("FutureProofUnsmear") /\ call.arg = InfiniteFuture) =>
       ~aborted /\ ret = <<TaiInfiniteFuture, TaiInfiniteFuture>>
  /\ (Called("FutureProofUnsmear") /\ call.arg = InfinitePast) =>
       ~aborted /\ ret = <<TaiInfinitePast, TaiInfinitePast>>
  /\ (Called("FutureProofUnsmearToGps") /\ call.arg = InfiniteFuture) =>
       ~aborted /\ ret = <<GpsInfiniteFuture, GpsInfiniteFuture>>
  /\ (Called("FutureProofUnsmearToGps") /\ call.arg = InfinitePast) =>
       ~aborted /\ ret = <<GpsInfinitePast, GpsInfinitePast>>

\* A Smear of GpsInfinitePast() returned absl::InfinitePast().
C7_Witness ==
  /\ Called("Smear") /\ call.ts = "GPST" /\ call.arg = GpsInfinitePast
  /\ ~aborted
  /\ ret = <<InfinitePast>>

\* The TAI value of the expiration, T of C8, and its leap-free extrapolation
\* to utc, T of C9.
ExpirationTai == Unsmear(lt, lt[1].utc, half)[1]

Extrapolated(utc) == AddD(ExpirationTai, SubD(utc, lt[1].utc))

\* C8: widening inside the first hypothetical smear window.  For every table
\* and every offset x with 0 < x <= 24 h,
\* FutureProofUnsmear(expiration + x) == (T + x - w, T + x + w), where
\* T = *Unsmear(expiration) and w = (x / 24 h) * 1 s to the nearest tick:
\* 250 ms, 500 ms, 750 ms and 1 s at x = 6, 12, 18 and 24 h.
C8_FirstWindowWidening ==
  (Called("FutureProofUnsmear") /\ ArgPastExpiration
     /\ Le(call.arg, AddD(lt[1].utc, Hours(24)))) =>
    /\ ~aborted
    /\ LET x == SubD(call.arg, lt[1].utc)
       IN  /\ \E up \in BOOLEAN :
                LET w == RoundDiv(x, SecondsPerDay, up)
                IN  ret = <<SubD(Extrapolated(call.arg), w),
                            AddD(Extrapolated(call.arg), w)>>
           /\ \A n \in 1..4 :
                x = Hours(6 * n) =>
                  ret = <<SubD(Extrapolated(call.arg), Milliseconds(250 * n)),
                          AddD(Extrapolated(call.arg), Milliseconds(250 * n))>>

\* utc is in the last 12 h of a calendar month or in the first 12 h of one:
\* twelve hours later it is the first day of a month.
InMonthEndWindow(utc) == ToTM(AddD(utc, Hours(12))).tm_mday = 1

\* The number of month-end midnights between the expiration and utc.
MonthEndsSinceExpiration(utc) == MonthIndex(utc) - MonthIndex(lt[1].utc)

\* C9: width outside smear windows.  For every table and every finite
\* utc > expiration that is neither in the last 12 h of a calendar month nor
\* in the first 12 h of one, FutureProofUnsmear(utc) == (T - k s, T + k s),
\* where T = *Unsmear(expiration) + (utc - expiration) and k is the number of
\* month-end midnights between the expiration and utc: k = 1 at
\* expiration + 48 h and + 3 days, k = 2 at expiration + 45 days.
C9_WidthOutsideWindows ==
  (Called("FutureProofUnsmear") /\ ArgPastExpiration
     /\ ~InMonthEndWindow(call.arg)) =>
    /\ ~aborted
    /\ LET k == MonthEndsSinceExpiration(call.arg)
       IN  /\ ret = <<SubD(Extrapolated(call.arg), Seconds(k)),
                      AddD(Extrapolated(call.arg), Seconds(k))>>
           /\ SubD(ret[2], ret[1]) = Seconds(2 * k)
           /\ SubD(call.arg, lt[1].utc) \in {Hours(48), Hours(72)} => k = 1
           /\ SubD(call.arg, lt[1].utc) = Days(45) => k = 2

\* C10: serialization round-trips.  For every table L produced by
\* NewLeapTableFromProto, ToProto followed by NewLeapTableFromProto yields a
\* non-null table equal to L, entry by entry; ToProto lists the JDN of each
\* leap day (entry utc minus one day) in positive_leaps or negative_leaps by
\* the entry's smear sign, once each, and sets end_jdn to the JDN of the day
\* before the expiration.
C10_ProtoRoundTrip ==
  Called("ToProto") =>
    /\ ~aborted
    /\ NewLeapTableFromProto(ret) # Null
    /\ LeapTableEquals(NewLeapTableFromProto(ret), lt)
    /\ JdnToTime(ret.end_jdn + 1) = lt[1].utc
    /\ \A i \in 2..Len(lt) :
         /\ lt[i].smear = 1 =>
              \E k \in 1..Len(ret.positive_leaps) :
                JdnToTime(ret.positive_leaps[k] + 1) = lt[i].utc
         /\ lt[i].smear = -1 =>
              \E k \in 1..Len(ret.negative_leaps) :
                JdnToTime(ret.negative_leaps[k] + 1) = lt[i].utc
    /\ Len(ret.positive_leaps) + Len(ret.negative_leaps) = (Len(lt) - 2) \div 2

\* A ToProto of a table with a positive and a negative leap returned a
\* catalog with one leap in each list, from which the same table is built.
C10_Witness ==
  /\ Called("ToProto") /\ ~aborted
  /\ Len(ret.positive_leaps) = 1 /\ Len(ret.negative_leaps) = 1
  /\ LeapTableEquals(NewLeapTableFromProto(ret), lt)

\* The value the query c, rounding to side up, computes from table t.
QueryValue(t, c, up) ==
  CASE c.fn = "Unsmear" -> Unsmear(t, c.arg, up)
    [] c.fn = "UnsmearToGps" -> UnsmearToGps(t, c.arg, up)
    [] c.fn = "FutureProofUnsmear" -> FutureProofUnsmear(t, c.arg, up)
    [] c.fn = "FutureProofUnsmearToGps" ->
         FutureProofUnsmearToGps(t, c.arg, up)
    [] c.fn = "Smear" -> Smear(t, c.arg, c.ts, up)
    [] c.fn = "FutureProofSmear" -> FutureProofSmear(t, c.arg, c.ts, up)
    [] c.fn = "ToProto" -> ToProto(t)
    [] c.fn = "expiration" -> LeapTableExpiration(t)
    [] c.fn = "DebugString" -> DebugString(t)
    [] c.fn = "operator==" ->
         LeapTableEquals(t, NewLeapTableFromProto(c.arg))

AllLeaps(proto) == proto.positive_leaps \o proto.negative_leaps

\* Some JDN appears twice in one list of the catalog or in both lists.
HasDuplicateLeap(proto) ==
  \E i, j \in 1..Len(AllLeaps(proto)) :
    i # j /\ AllLeaps(proto)[i] = AllLeaps(proto)[j]

\* C12: NewLeapTableFromProto returns null whenever a leap JDN appears
\* twice in the same list or in both positive_leaps and negative_leaps,
\* whatever the order of the list elements and whichever order the sort
\* leaves the entries of equal utc in.
C12_DuplicateLeapRejected ==
  (Called("NewLeapTableFromProto") /\ HasDuplicateLeap(call.arg)) =>
    /\ ret = Null /\ lt = Null
    /\ \A sorted \in SortOrders(ProtoEntries(call.arg)) :
         Validate(call.arg, JdnToTime(call.arg.end_jdn + 1), sorted) = Null

\* A catalog in range whose positive leaps name 1972-06-30 first and last
\* and whose negative leaps name it again, so that its sort has several
\* outcomes, was rejected.
C12_Witness ==
  /\ Called("NewLeapTableFromProto") /\ ret = Null
  /\ call.arg.positive_leaps = <<2441499, 2441864, 2441499>>
  /\ call.arg.negative_leaps = <<2441499>>
  /\ call.arg.end_jdn = 2442412
  /\ Cardinality(SortOrders(ProtoEntries(call.arg))) > 1

\* The Gregorian rule: every fourth year, but of the century years only
\* every fourth.
IsLeapYear(y) == y % 4 = 0 /\ (y % 100 # 0 \/ y % 400 = 0)

DaysInMonth(y, m) ==
  IF m = 2 THEN (IF IsLeapYear(y) THEN 29 ELSE 28)
  ELSE IF m \in {4, 6, 9, 11} THEN 30
  ELSE 31

\* The civil day tm is the last day of its month.
IsLastDayOfMonth(tm) == tm.tm_mday = DaysInMonth(tm.tm_year + 1900, tm.tm_mon + 1)

\* The day labeled jdn is the last day of its calendar month.
IsMonthEnd(jdn) == IsLastDayOfMonth(ToTM(JdnToTime(jdn)))

\* end_jdn is within range and the day after the day after it is the first
\* of a month, as lines 609-623 require.
EndJdnAccepted(end_jdn) ==
  /\ end_jdn >= kMinJdn /\ end_jdn <= kMaxJdn
  /\ ToTM(JdnToTime(end_jdn + 2)).tm_mday = 1

\* C13: NewLeapTableFromProto returns null whenever some leap JDN is not the
\* last day of its calendar month (28 February in a common year, 29 February
\* in a leap year, by the Gregorian rule), and it accepts the catalogs whose
\* leaps fall on month ends, consecutive ones included (1972-01-31,
\* 1972-02-29, 1972-03-31, 1972-04-30): a catalog of distinct month-end
\* leaps within range, none after end_jdn, and an acceptable end_jdn yields
\* a table.
C13_LeapAtMonthEnd ==
  Called("NewLeapTableFromProto") =>
    LET leaps == AllLeaps(call.arg)
    IN  /\ (\E k \in 1..Len(leaps) : ~IsMonthEnd(leaps[k])) => ret = Null
        /\ ( /\ EndJdnAccepted(call.arg.end_jdn)
             /\ ~HasDuplicateLeap(call.arg)
             /\ \A k \in 1..Len(leaps) :
                  /\ IsMonthEnd(leaps[k])
                  /\ leaps[k] >= kMinJdn /\ leaps[k] <= call.arg.end_jdn )
           => /\ ret # Null
              /\ Len(ret) = 2 * Len(leaps) + 2
        /\ call.arg = AdjacentProto => ret # Null

\* The catalog whose one leap is 2000-02-28, the day before the last day of
\* the February of a leap year, and which is acceptable otherwise, was
\* rejected.
C13_Witness ==
  /\ Called("NewLeapTableFromProto") /\ ret = Null
  /\ call.arg.positive_leaps = <<2451603>> /\ call.arg.negative_leaps = <<>>
  /\ EndJdnAccepted(call.arg.end_jdn) /\ 2451603 <= call.arg.end_jdn
  /\ ToTM(JdnToTime(2451603)).tm_mon = 1 /\ ToTM(JdnToTime(2451603)).tm_mday = 28

\* C14: NewLeapTableFromProto returns null whenever some leap JDN is later
\* than end_jdn, its smear window ending after the expiration; so in every
\* constructed table the first entry is the expiration, noon of
\* end_jdn + 1, with smear 0, and every smear window ends at or before it.
C14_NoLeapAfterExpiration ==
  /\ Called("NewLeapTableFromProto") =>
       LET leaps == AllLeaps(call.arg)
       IN  /\ (\E k \in 1..Len(leaps) : leaps[k] > call.arg.end_jdn)
                => ret = Null
           /\ ret # Null => ret[1].utc = JdnToTime(call.arg.end_jdn + 1)
  /\ lt # Null =>
       /\ lt[1].smear = 0
       /\ \A i \in 2..Len(lt) : Le(lt[i].utc, lt[1].utc)

\* The catalog whose one leap, 1972-06-30, ends a month after its end_jdn,
\* 1972-01-30, and which is acceptable otherwise, was rejected.
C14_Witness ==
  /\ Called("NewLeapTableFromProto") /\ ret = Null
  /\ call.arg.positive_leaps = <<2441499>> /\ call.arg.negative_leaps = <<>>
  /\ call.arg.end_jdn = 2441347
  /\ EndJdnAccepted(call.arg.end_jdn) /\ IsMonthEnd(2441499)
  /\ Lt(JdnToTime(call.arg.end_jdn + 1), JdnToTime(2441499 + 1))

\* The JDN whose JdnToTime is noon UTC of the civil day y-m-d.
JdnOfNoon(y, m, d) == ToJdnInt(FromDateTime(y, m, d, 12))

\* Every leap JDN of the catalog lies within lo..hi.
LeapsWithin(proto, lo, hi) ==
  \A k \in 1..Len(AllLeaps(proto)) :
    AllLeaps(proto)[k] >= lo /\ AllLeaps(proto)[k] <= hi

\* The catalog without leaps and with this end_jdn yields a table.
AcceptsEndJdn(end_jdn) ==
  NewLeapTableFromProto([positive_leaps |-> <<>>, negative_leaps |-> <<>>,
                         end_jdn |-> end_jdn]) # Null

\* C15 (as stated): NewLeapTableFromProto produces a table only if end_jdn
\* lies within [JDN of noon 1972-01-31, JDN of noon 9999-12-31] inclusive,
\* JdnToTime(2441318) being noon 1972-01-01; every end_jdn outside that
\* range, an unset one (0) and 7654321 included, is rejected, and every leap
\* JDN lies in the same range.
C15_EndJdnRangeAsStated ==
  /\ JdnToTime(2441318) = FromDateTime(1972, 1, 1, 12)
  /\ (Called("NewLeapTableFromProto") /\ ret # Null) =>
       /\ call.arg.end_jdn >= JdnOfNoon(1972, 1, 31)
       /\ call.arg.end_jdn <= JdnOfNoon(9999, 12, 31)
       /\ LeapsWithin(call.arg, JdnOfNoon(1972, 1, 31),
                      JdnOfNoon(9999, 12, 31))

\* C15 (amended): NewLeapTableFromProto produces a table only if end_jdn
\* lies within [JDN of noon 1972-01-30, JDN of noon 9999-12-30] inclusive,
\* that is [2441347, 5373483], JdnToTime(2441318) being noon 1972-01-01;
\* both bounds are accepted; every end_jdn outside that range, an unset one
\* (0) and 7654321 included, is rejected, and every leap JDN lies in the
\* same range.
C15_EndJdnRange ==
  /\ JdnToTime(2441318) = FromDateTime(1972, 1, 1, 12)
  /\ JdnOfNoon(1972, 1, 30) = 2441347 /\ JdnOfNoon(9999, 12, 30) = 5373483
  /\ Called("NewLeapTableFromProto") =>
       /\ ret # Null =>
            /\ call.arg.end_jdn >= JdnOfNoon(1972, 1, 30)
            /\ call.arg.end_jdn <= JdnOfNoon(9999, 12, 30)
            /\ LeapsWithin(call.arg, JdnOfNoon(1972, 1, 30),
                           JdnOfNoon(9999, 12, 30))
       /\ call.arg.end_jdn \in {0, 7654321} => ret = Null
       /\ ( /\ AllLeaps(call.arg) = <<>>
            /\ call.arg.end_jdn \in {JdnOfNoon(1972, 1, 30),
                                     JdnOfNoon(9999, 12, 30)} )
          => ret # Null

\* The catalog without leaps whose end_jdn is 2441347, the JDN of noon
\* 1972-01-30, one below the JDN of noon 1972-01-31, yielded a table.
C15_Witness ==
  /\ Called("NewLeapTableFromProto") /\ ret # Null
  /\ AllLeaps(call.arg) = <<>>
  /\ call.arg.end_jdn = 2441347
  /\ call.arg.end_jdn = JdnOfNoon(1972, 1, 31) - 1
  /\ ret[1].utc = FromDateTime(1972, 1, 31, 12)

\* t is noon UTC of some day.
IsNoon(t) == Finite(t) /\ t[2] = 12 * 3600 /\ t[3] = 0 /\ t[4] = 0 /\ t[5] = 0

\* C16 (as stated): NewLeapTableFromProto produces a table only if the
\* calendar day immediately after the day labeled end_jdn is the first day
\* of a month; the table's expiration is then noon UTC of end_jdn + 1,
\* which is a first-of-month noon.
C16_ExpirationFirstOfMonth ==
  (Called("NewLeapTableFromProto") /\ ret # Null) =>
    /\ ToTM(JdnToTime(call.arg.end_jdn + 1)).tm_mday = 1
    /\ ret[1].utc = JdnToTime(call.arg.end_jdn + 1)
    /\ IsNoon(ret[1].utc) /\ ToTM(ret[1].utc).tm_mday = 1

\* C16 (amended): NewLeapTableFromProto produces a table only if the second
\* calendar day after the day labeled end_jdn is the first day of a month;
\* the table's expiration is then noon UTC of end_jdn + 1, which is a
\* last-of-month noon.
C16_ExpirationLastOfMonth ==
  (Called("NewLeapTableFromProto") /\ ret # Null) =>
    /\ ToTM(JdnToTime(call.arg.end_jdn + 2)).tm_mday = 1
    /\ ret[1].utc = JdnToTime(call.arg.end_jdn + 1)
    /\ IsNoon(ret[1].utc) /\ IsLastDayOfMonth(ToTM(ret[1].utc))

\* The table of LeapTableTest, end_jdn 2446065 (1984-12-30), expires at
\* noon of 1984-12-31.
C16_Witness ==
  /\ Called("NewLeapTableFromProto") /\ ret # Null
  /\ call.arg.end_jdn = 2446065
  /\ ret[1].utc = FromDateTime(1984, 12, 31, 12)
  /\ ToTM(JdnToTime(call.arg.end_jdn)).tm_mday = 30

\* C17: for every catalog NewLeapTableFromProto accepts, expiration() is
\* JdnToTime(end_jdn + 1), and that instant is noon UTC of the last day of a
\* calendar month, the start of the next possible smear window: expiration
\* + 24 h falls on day 1 of a month.  A catalog for which this fails, as
\* one whose end_jdn is itself the last day of a month (2442413,
\* 1974-12-31), is rejected.
C17_ExpirationAtMonthEnd ==
  /\ Called("NewLeapTableFromProto") =>
       /\ ret # Null =>
            /\ LeapTableExpiration(ret) = JdnToTime(call.arg.end_jdn + 1)
            /\ IsMonthEnd(call.arg.end_jdn + 1)
       /\ ~IsMonthEnd(call.arg.end_jdn + 1) => ret = Null
       /\ call.arg.end_jdn = 2442413 => ret = Null
  /\ (Called("expiration") /\ ~aborted) =>
       /\ ret = JdnToTime(ToProto(lt).end_jdn + 1)
       /\ IsNoon(ret) /\ IsLastDayOfMonth(ToTM(ret))
       /\ ToTM(AddD(ret, Hours(24))).tm_mday = 1

\* expiration() of the table of LeapTableTest returned noon of 1984-12-31,
\* a day before 1985-01-01.
C17_Witness ==
  /\ Called("expiration") /\ lt = NewLeapTableFromProto(TestProto)
  /\ ret = JdnToTime(TestProto.end_jdn + 1)
  /\ ret = FromDateTime(1984, 12, 31, 12)
  /\ AddD(ret, Hours(12)) = FromDateTime(1985, 1, 1, 0)

\* C18: the GPS-flavoured conversions are the TAI conversions composed with
\* the constant offset.  Whenever UnsmearToGps(utc) has a value it is
\* ToGpsTime(*Unsmear(utc)), and *Unsmear(utc) is ToTaiTime of it; for every
\* GpsTime g >= GpsEpoch(), Smear(g) == Smear(ToTaiTime(g)) and
\* FutureProofSmear(g) == FutureProofSmear(ToTaiTime(g));
\* FutureProofUnsmearToGps(utc) is the endpoint-wise ToGpsTime of
\* FutureProofUnsmear(utc) whenever the lower endpoint of the latter is not
\* before the GPS epoch.
C18_GpsIsTaiWithOffset ==
  /\ (Called("UnsmearToGps") /\ ~aborted /\ ret # <<>>) =>
       /\ Unsmear(lt, call.arg, half) # <<>>
       /\ ret[1] = ToGpsTime(Unsmear(lt, call.arg, half)[1], "TAI")
       /\ Unsmear(lt, call.arg, half)[1] = ToTaiTime(ret[1], "GPST")
  /\ (Called("Smear") /\ ~aborted /\ call.ts = "GPST"
        /\ Le(GpsEpoch, call.arg)) =>
       ret = Smear(lt, ToTaiTime(call.arg, "GPST"), "TAI", half)
  /\ (Called("FutureProofSmear") /\ ~aborted /\ call.ts = "GPST"
        /\ Le(GpsEpoch, call.arg)) =>
       ret = FutureProofSmear(lt, ToTaiTime(call.arg, "GPST"), "TAI", half)
  /\ (Called("FutureProofUnsmearToGps") /\ ~aborted
        /\ Le(TaiGpsEpoch, FutureProofUnsmear(lt, call.arg, half)[1])) =>
       /\ ret[1] = ToGpsTime(FutureProofUnsmear(lt, call.arg, half)[1], "TAI")
       /\ ret[2] = ToGpsTime(FutureProofUnsmear(lt, call.arg, half)[2], "TAI")

\* Smear of a finite GpsTime after the GPS epoch that lies inside a positive
\* smear window: the result is what Smear gives for the TaiTime 8040 days
\* and 19 s later in count.
C18_Witness ==
  /\ Called("Smear") /\ ~aborted /\ call.ts = "GPST"
  /\ Finite(call.arg) /\ Lt(GpsEpoch, call.arg)
  /\ ret # <<>> /\ InSmear(ret[1], 1)
  /\ Lt(lt[LookupIndex(lt, "utc", ret[1])].utc, ret[1])
  /\ ToTaiTime(call.arg, "GPST") = AddD(call.arg, Seconds(8040 * 86400 + 19))
  /\ ret = Smear(lt, ToTaiTime(call.arg, "GPST"), "TAI", half)

\* C19: the TAI <-> GPST conversion is a constant offset and takes no leap
\* table.  ToTaiTime(GpsEpoch()) - TaiEpoch() is 8040 * 86400 + 19 s; for
\* every finite time whose shifted value is representable,
\* ToTaiTime(ToGpsTime(t)) == t and ToGpsTime(ToTaiTime(g)) == g, ToTaiTime
\* is the identity on TaiTime and ToGpsTime the identity on GpsTime; both
\* map InfiniteFuture to InfiniteFuture and InfinitePast to InfinitePast of
\* the other timescale.
C19_ConstantOffset ==
  /\ SubD(ToTaiTime(GpsEpoch, "GPST"), TaiEpoch) = Seconds(8040 * 86400 + 19)
  /\ (Called("ToGpsTime") /\ call.ts = "TAI") =>
       /\ lt = Null
       /\ call.arg = TaiInfiniteFuture => ret = GpsInfiniteFuture
       /\ call.arg = TaiInfinitePast => ret = GpsInfinitePast
       /\ (Finite(call.arg) /\ Finite(ret)) =>
            /\ ret = SubD(call.arg, Seconds(8040 * 86400 + 19))
            /\ ToTaiTime(ret, "GPST") = call.arg
  /\ (Called("ToTaiTime") /\ call.ts = "GPST") =>
       /\ lt = Null
       /\ call.arg = GpsInfiniteFuture => ret = TaiInfiniteFuture
       /\ call.arg = GpsInfinitePast => ret = TaiInfinitePast
       /\ (Finite(call.arg) /\ Finite(ret)) =>
            /\ ret = AddD(call.arg, Seconds(8040 * 86400 + 19))
            /\ ToGpsTime(ret, "TAI") = call.arg
  /\ (Called("ToTaiTime") /\ call.ts = "TAI") => ret = call.arg
  /\ (Called("ToGpsTime") /\ call.ts = "GPST"
        /\ Finite(ToTaiTime(call.arg, "GPST"))) => ret = call.arg

\* ToGpsTime of the TaiTime of TimeTest.Conversions, 12345 days and 19 s
\* after the TAI epoch, returned the GpsTime 4305 days after the GPS epoch,
\* with no table built.
C19_Witness ==
  /\ Called("ToGpsTime") /\ call.ts = "TAI" /\ lt = Null
  /\ call.arg = AddD(Days(12345), Seconds(19))
  /\ ret = Days(4305)
  /\ ToTaiTime(ret, "GPST") = call.arg

\* The sum of the limbs of two finite durations, carried but not brought
\* into the finite range: their true sum.
TrueSum(x, y) ==
  Norm(<<x[1] + y[1], x[2] + y[2], x[3] + y[3], x[4] + y[4], x[5] + y[5]>>)

\* Their true difference.
TrueDifference(x, y) ==
  Norm(<<x[1] - y[1], x[2] - y[2], x[3] - y[3], x[4] - y[4], x[5] - y[5]>>)

\* result is the true value v when v is in the finite range, and the
\* infinity of v's side when it is past it.
SaturatedTo(result, v) ==
  IF v[1] >= InfDays THEN result = InfiniteDuration
  ELSE IF v[1] < -InfDays THEN result = NegInfiniteDuration
  ELSE result = v

\* C20: Duration addition and subtraction never wrap.  When the true sum or
\* difference of two finite Durations is past the representable range
\* (Seconds(INT64_MAX) + Seconds(1), Seconds(INT64_MIN) - Seconds(1)) the
\* result is the infinity of the matching sign; an infinite left operand
\* absorbs (INF + d == INF - d == INF and -INF + d == -INF for every d,
\* INF + (-INF) == INF and INF - INF == INF included), and a finite left
\* operand with an infinite right operand yields that infinity with the
\* operation's sign.
C20_NeverWraps ==
  /\ Called("operator+") =>
       LET lhs == call.arg[1]
           rhs == call.arg[2]
       IN  IF IsInf(lhs) THEN ret = lhs
           ELSE IF IsInf(rhs) THEN ret = rhs
           ELSE SaturatedTo(ret, TrueSum(lhs, rhs))
  /\ Called("operator-") =>
       LET lhs == call.arg[1]
           rhs == call.arg[2]
       IN  IF IsInf(lhs) THEN ret = lhs
           ELSE IF rhs = InfiniteDuration THEN ret = NegInfiniteDuration
           ELSE IF rhs = NegInfiniteDuration THEN ret = InfiniteDuration
           ELSE SaturatedTo(ret, TrueDifference(lhs, rhs))
  /\ (Called("operator+") \/ Called("operator-")) =>
       ret \in {InfiniteDuration, NegInfiniteDuration} \/ Finite(ret)

\* Seconds(INT64_MAX) + Seconds(1), whose true sum is past the finite range,
\* returned +InfiniteDuration.
C20_Witness ==
  /\ Called("operator+")
  /\ call.arg = <<SecondsMax, Seconds(1)>>
  /\ Finite(call.arg[1]) /\ Finite(call.arg[2])
  /\ TrueSum(call.arg[1], call.arg[2])[1] = InfDays
  /\ ret = InfiniteDuration

\* The finite operands the arithmetic is applied to.
FiniteInputs == {d \in DurationInputs : Finite(d)}

\* C21 (as stated): the group axioms of Duration for finite values, values
\* near the limits (Seconds(INT64_MAX), Seconds(INT64_MIN)) included: for
\* all finite a, b, c, a + b == b + a, (a + b) + c == a + (b + c),
\* d + ZeroDuration() == d, d - d == ZeroDuration() and -(-d) == d.
C21_GroupAxiomsToTheLimits ==
  /\ (Called("operator+") /\ Finite(call.arg[1]) /\ Finite(call.arg[2])) =>
       /\ ret = AddD(call.arg[2], call.arg[1])
       /\ \A c \in FiniteInputs :
            AddD(ret, c) = AddD(call.arg[1], AddD(call.arg[2], c))
       /\ call.arg[2] = ZeroDuration => ret = call.arg[1]
  /\ (Called("operator-") /\ Finite(call.arg[1])
        /\ call.arg[2] = call.arg[1]) => ret = ZeroDuration
  /\ (Called("operator- (unary)") /\ Finite(call.arg)) =>
       NegD(ret) = call.arg

\* C21 (amended): for all finite a, b, c, values near the limits included,
\* a + b == b + a; (a + b) + c == a + (b + c) whenever neither a + b nor
\* b + c is infinite; d + ZeroDuration() == d; d - d == ZeroDuration(); and
\* -(-d) == d for every finite d other than the least one,
\* Seconds(INT64_MIN), whose negation is +InfiniteDuration.
C21_GroupAxioms ==
  /\ (Called("operator+") /\ Finite(call.arg[1]) /\ Finite(call.arg[2])) =>
       /\ ret = AddD(call.arg[2], call.arg[1])
       /\ \A c \in FiniteInputs :
            (Finite(ret) /\ Finite(AddD(call.arg[2], c))) =>
              AddD(ret, c) = AddD(call.arg[1], AddD(call.arg[2], c))
       /\ call.arg[2] = ZeroDuration => ret = call.arg[1]
  /\ (Called("operator-") /\ Finite(call.arg[1])
        /\ call.arg[2] = call.arg[1]) => ret = ZeroDuration
  /\ (Called("operator- (unary)") /\ Finite(call.arg)) =>
       IF call.arg = SecondsMin THEN ret = InfiniteDuration
       ELSE NegD(ret) = call.arg

\* Seconds(INT64_MAX) + Seconds(1) returned +InfiniteDuration, so that
\* adding Seconds(-1) to it gives +InfiniteDuration, while Seconds(INT64_MAX)
\* + (Seconds(1) + Seconds(-1)) is Seconds(INT64_MAX).
C21_Witness ==
  /\ Called("operator+") /\ call.arg = <<SecondsMax, Seconds(1)>>
  /\ ret = InfiniteDuration
  /\ AddD(ret, Seconds(-1)) = InfiniteDuration
  /\ AddD(SecondsMax, AddD(Seconds(1), Seconds(-1))) = SecondsMax
  /\ ret = AddD(Seconds(1), SecondsMax)

RECURSIVE PercentRun(_, _)
\* The number of consecutive '%' characters that end at position i.
PercentRun(format, i) ==
  IF i = 0 \/ format[i] # "%" THEN 0 ELSE 1 + PercentRun(format, i - 1)

\* The character at i is the Z of a %Z specifier: an odd run of '%' ends
\* just before it, whose pairs from the left leave the last '%' to the Z.
IsZoneSpecifier(format, i) ==
  i \in 1..Len(format) /\ format[i] = "Z" /\ PercentRun(format, i - 1) % 2 = 1

RECURSIVE WithZone(_, _, _)
\* The format from position i on, each %Z specifier replaced by the zone and
\* every other character kept in order.
WithZone(format, i, zone) ==
  IF i > Len(format) THEN <<>>
  ELSE (IF IsZoneSpecifier(format, i) THEN <<zone>>
        ELSE IF IsZoneSpecifier(format, i + 1) THEN <<>>
        ELSE <<format[i]>>)
       \o WithZone(format, i + 1, zone)

\* C22: FormatTime(format, t) of a finite TaiTime or GpsTime formats with a
\* copy of the format in which each %Z specifier is the timescale label and
\* every other character is kept in order, a '%' being paired with the
\* character after it from the left (%%Z keeps its Z, %%%Z has its last
\* pair replaced, a trailing lone '%' is kept); a format without a '%'
\* immediately followed by 'Z' is passed through unchanged.
C22_ZoneReplaced ==
  (Called("FormatTime(format)") /\ call.ts \in {"TAI", "GPST"}
     /\ Finite(call.arg[2])) =>
    /\ ret = AbslFormat(WithZone(call.arg[1], 1, ZoneName(call.ts)), 1,
                        ToTM(ToUnixTime(call.arg[2], call.ts)))
    /\ (\A i \in 1..(Len(call.arg[1]) - 1) :
          ~(call.arg[1][i] = "%" /\ call.arg[1][i + 1] = "Z")) =>
         ret = AbslFormat(call.arg[1], 1,
                          ToTM(ToUnixTime(call.arg[2], call.ts)))

\* The format "%Y %Z %% %%% %%Z %" of TimeTest.EpochsAndFormatting applied
\* to TaiModernUtcEpoch() gave "1972 TAI % %% %Z %".
C22_Witness ==
  /\ Called("FormatTime(format)") /\ call.ts = "TAI"
  /\ call.arg = <<TestFormat, TaiModernUtcEpoch>>
  /\ ret = <<1972, " ", "TAI", " ", "%", " ", "%", "%", " ", "%", "Z", " ",
             "%">>

\* The number of entries of table t with the given utc and smear.
EntriesAt(t, utc, smear) ==
  Cardinality({i \in 1..Len(t) : t[i].utc = utc /\ t[i].smear = smear})

\* C23: every constructed table with P positive and N negative leaps has
\* exactly 2 * (P + N) + 2 entries, strictly descending in utc and in tai;
\* its first entry is (expiration, smear 0); its last entry is (1972-01-01
\* 00:00:00 UTC, 1972-01-01 00:00:10 TAI, smear 0); and each leap
\* contributes exactly one smear-0 entry at noon of the leap day and one
\* entry of smear +1 or -1 at noon of the following day.
C23_TableStructure ==
  (Called("NewLeapTableFromProto") /\ ret # Null) =>
    LET P == call.arg.positive_leaps
        N == call.arg.negative_leaps
    IN  /\ Len(ret) = 2 * (Len(P) + Len(N)) + 2
        /\ Len(ret) % 2 = 0
        /\ \A i \in 1..(Len(ret) - 1) :
             Lt(ret[i + 1].utc, ret[i].utc) /\ Lt(ret[i + 1].tai, ret[i].tai)
        /\ ret[1].utc = JdnToTime(call.arg.end_jdn + 1) /\ ret[1].smear = 0
        /\ ret[Len(ret)] =
             Entry(FromDateTime(1972, 1, 1, 0),
                   AddD(FromDateTime(1972, 1, 1, 0),
                        AddD(Days(4383), Seconds(10))), 0)
        /\ \A k \in 1..Len(P) :
             /\ EntriesAt(ret, JdnToTime(P[k]), 0) = 1
             /\ EntriesAt(ret, JdnToTime(P[k] + 1), 1) = 1
             /\ EntriesAt(ret, JdnToTime(P[k]), 1) = 0
             /\ EntriesAt(ret, JdnToTime(P[k] + 1), 0) = 0
             /\ EntriesAt(ret, JdnToTime(P[k] + 1), -1) = 0
        /\ \A k \in 1..Len(N) :
             /\ EntriesAt(ret, JdnToTime(N[k]), 0) = 1
             /\ EntriesAt(ret, JdnToTime(N[k] + 1), -1) = 1
             /\ EntriesAt(ret, JdnToTime(N[k]), -1) = 0
             /\ EntriesAt(ret, JdnToTime(N[k] + 1), 0) = 0
             /\ EntriesAt(ret, JdnToTime(N[k] + 1), 1) = 0
        /\ \A i \in 1..Len(ret) :
             ret[i].smear # 0 =>
               /\ i < Len(ret) /\ ret[i + 1].smear = 0
               /\ ret[i].utc = AddD(ret[i + 1].utc, Hours(24))

\* The table of the catalog of AdjacentLeapSecondsTest, three positive leaps
\* and a negative one: ten entries.
C23_Witness ==
  /\ Called("NewLeapTableFromProto") /\ call.arg = AdjacentProto
  /\ ret # Null /\ Len(ret) = 10
  /\ ret[2].smear = 1 /\ ret[3].smear = 0 /\ ret[4].smear = -1

\* The TAI reading of an entry less its UTC reading, both as calendar
\* readings: the TAI epoch is 4383 days before the Unix epoch.
TaiMinusUtc(e) == SubD(SubD(e.tai, Days(4383)), e.utc)

\* The smears of the entries of t from index i to the last, added up.
SmearsFrom(t, i) ==
  Cardinality({j \in i..Len(t) : t[j].smear = 1})
  - Cardinality({j \in i..Len(t) : t[j].smear = -1})

\* C24: in every constructed table, for consecutive entries E_i, E_{i+1},
\* E_i.tai - E_{i+1}.tai == (E_i.utc - E_{i+1}.utc) + E_i.smear * 1 s; so an
\* entry of nonzero smear closes a segment of exactly 86,400 s of UTC and
\* 86,400 + smear s of TAI, and E_i.tai - E_i.utc as calendar readings is
\* 10 s plus the smears of the entries from i to the last, the running
\* TAI-UTC that DebugString prints (10 at the modern UTC epoch).
C24_TaiChain ==
  lt # Null =>
    /\ \A i \in 1..(Len(lt) - 1) :
         /\ SubD(lt[i].tai, lt[i + 1].tai)
              = AddD(SubD(lt[i].utc, lt[i + 1].utc), Seconds(lt[i].smear))
         /\ lt[i].smear # 0 =>
              /\ SubD(lt[i].utc, lt[i + 1].utc) = Seconds(86400)
              /\ SubD(lt[i].tai, lt[i + 1].tai) = Seconds(86400 + lt[i].smear)
    /\ \A i \in 1..Len(lt) :
         /\ lt[i].smear \in {-1, 0, 1}
         /\ TaiMinusUtc(lt[i]) = Seconds(10 + SmearsFrom(lt, i))
    /\ Called("DebugString") =>
         /\ Len(ret) = Len(lt) + 1
         /\ \A i \in 1..Len(lt) : Seconds(ret[i + 1][6]) = TaiMinusUtc(lt[i])
         /\ ret[Len(ret)][6] = 10

\* DebugString of the table of AdjacentLeapSecondsTest, three positive leaps
\* and a negative one: TAI-UTC is 12 s at the expiration.
C24_Witness ==
  /\ Called("DebugString") /\ Len(lt) = 10 /\ lt[4].smear = -1
  /\ ret[2][6] = 12 /\ ret[5][6] = 11 /\ ret[6][6] = 12 /\ ret[11][6] = 10
  /\ TaiMinusUtc(lt[1]) = Seconds(12)

\* x * 86400 for a duration x of at most a day.
TimesSecondsPerDay(x) ==
  Norm(<<x[1] * SecondsPerDay, x[2] * SecondsPerDay, x[3] * SecondsPerDay,
         x[4] * SecondsPerDay, x[5] * SecondsPerDay>>)

\* share is D / 86,400 to the nearest tick: 86,400 * share is within half of
\* 86,400 ticks of D.
IsDailyShare(share, D) ==
  /\ Le(ZeroDuration, share)
  /\ Le(SubD(D, Ticks(43200)), TimesSecondsPerDay(share))
  /\ Le(TimesSecondsPerDay(share), AddD(D, Ticks(43200)))

\* C25: for a segment closed by entry E and a UTC time utc of that segment,
\* with D == E.utc - utc, Unsmear(utc) == E.tai - D when E.smear == 0, and
\* Unsmear(utc) == E.tai - D - (D / 86,400 s) * E.smear * 1 s, a value of
\* tick resolution, when E.smear is +1 or -1: 6 h into a positive smear the
\* TAI-UTC offset has grown by exactly 250 ms, and at the midpoint of a
\* negative smear the TAI elapsed since its start is 12 h * 86399 / 86400.
C25_Interpolation ==
  (Called("Unsmear") /\ ArgInTable) =>
    /\ ~aborted /\ Len(ret) = 1
    /\ \A i \in 1..(Len(lt) - 1) :
         (Le(lt[i + 1].utc, call.arg) /\ Le(call.arg, lt[i].utc)) =>
           LET D == SubD(lt[i].utc, call.arg)
           IN  /\ lt[i].smear = 0 => ret[1] = SubD(lt[i].tai, D)
               /\ lt[i].smear # 0 =>
                    IsDailyShare(Signed(SubD(SubD(lt[i].tai, D), ret[1]),
                                        lt[i].smear), D)
               /\ (lt[i].smear = 1 /\ D = Hours(18)) =>
                    TaiMinusUtc(Entry(call.arg, ret[1], 0))
                      = AddD(TaiMinusUtc(lt[i + 1]), Milliseconds(250))
               /\ (lt[i].smear = -1 /\ D = Hours(12)) =>
                    SubD(ret[1], lt[i + 1].tai)
                      = AddD(Seconds(43199), Milliseconds(500))

\* Unsmear of 1972-06-30 18:00 UTC, 6 h into the smear of the first leap
\* second: 18:00:10.25 TAI.
C25_Witness ==
  /\ Called("Unsmear") /\ call.arg = FromDateTime(1972, 6, 30, 18)
  /\ lt # Null /\ InSmear(call.arg, 1)
  /\ ret = <<AddD(AddD(FromDateTime(1972, 6, 30, 18), Days(4383)),
                  AddD(Seconds(10), Milliseconds(250)))>>

\* t is in the last 12 h of its calendar month, by the Gregorian rule.
InLastHalfDayOfMonth(t) == IsLastDayOfMonth(ToTM(t)) /\ ToTM(t).tm_hour >= 12

\* t is in the first 12 h of its calendar month.
InFirstHalfDayOfMonth(t) == ToTM(t).tm_mday = 1 /\ ToTM(t).tm_hour < 12

\* C26: for every UTC time t after the expiration, in every year (leap
\* years and the century years 2000, 2100, 2300, 2400 included),
\* IsJustBeforeMonthEnd(t) is true if and only if t is at or after 12:00 on
\* the last day of its calendar month, and Advance returns entries of smear
\* -1 and +1 with the boundary at noon of the first day of a month if and
\* only if t is in the last 12 h of a month or the first 12 h of the next;
\* otherwise it returns smear 0 with the boundary at noon of the day after
\* t's calendar day, within 36 h after t.
C26_WindowRecognised ==
  (Called("FutureProofUnsmear") /\ lt # Null /\ ArgPastExpiration) =>
    LET t   == call.arg
        adv == Advance(lt[1], t)
    IN  /\ IsJustBeforeMonthEnd(ToTM(t)) = InLastHalfDayOfMonth(t)
        /\ adv[1].utc = adv[2].utc
        /\ Lt(t, adv[1].utc) /\ Le(adv[1].utc, AddD(t, Hours(36)))
        /\ IF InLastHalfDayOfMonth(t) \/ InFirstHalfDayOfMonth(t)
           THEN /\ adv[1].smear = -1 /\ adv[2].smear = 1
                /\ ToTM(adv[1].utc).tm_mday = 1 /\ IsNoon(adv[1].utc)
           ELSE /\ adv[1].smear = 0 /\ adv[2].smear = 0
                /\ adv[1].utc = AddD(<<t[1], 0, 0, 0, 0>>, Hours(36))

\* The leap-free extrapolation of the expiration to the TaiTime or GpsTime
\* of the call: U = expiration + (t - expiration TAI).
LeapFreeUtc == AddD(lt[1].utc, SubD(ToTaiTime(call.arg, call.ts), lt[1].tai))

\* C27 (as stated): for every table and every finite TaiTime or GpsTime t
\* later than the expiration's TAI and not before the epoch of its own
\* timescale (where U - w and U + w are the two infinities),
\* FutureProofSmear(t) == (U - w, U + w)
\* for some w >= 0, with first <= second, where U is the leap-free
\* extrapolation expiration + (t - expiration TAI); this holds inside a
\* hypothetical smear window and within a few seconds of its boundaries
\* too, and w is the count of elapsed months in seconds outside such
\* windows.
C27_SymmetricWidening ==
  (Called("FutureProofSmear") /\ TaiArgPastExpiration
     /\ Le(ZeroDuration, call.arg)) =>
    /\ ~aborted
    /\ Len(ret) = 2 /\ Finite(ret[1]) /\ Finite(ret[2])
    /\ Le(ret[1], ret[2])
    /\ Le(ret[1], LeapFreeUtc)
    /\ SubD(LeapFreeUtc, ret[1]) = SubD(ret[2], LeapFreeUtc)
    /\ ~InMonthEndWindow(LeapFreeUtc) =>
         SubD(ret[2], LeapFreeUtc)
           = Seconds(MonthEndsSinceExpiration(LeapFreeUtc))

\* The civil reading lying exactly t after the epoch of the timescale:
\* 1958-01-01 00:00:00 for TAI, 1980-01-06 00:00:00 for GPST.
ExactReading(t, timescale) ==
  AddD(IF timescale = "TAI" THEN FromDateTime(1958, 1, 1, 0)
       ELSE FromDateTime(1980, 1, 6, 0), t)

\* C28: FormatTime(t) of every finite TaiTime or GpsTime t renders the
\* proleptic-Gregorian date and time of day lying exactly (t - epoch) after
\* the epoch of the timescale, followed by the zone label, for the whole
\* range of times the library produces, the TAI of an expiration in year
\* 9999 included; only the two infinities give the fixed strings
\* tai-infinite-future, tai-infinite-past, gpst-infinite-future and
\* gpst-infinite-past, in both FormatTime overloads.
C28_ExactRendering ==
  /\ (Called("FormatTime") /\ call.ts \in {"TAI", "GPST"}) =>
       IF call.arg = InfiniteDuration
         THEN ret = <<IF call.ts = "TAI" THEN "tai-infinite-future"
                      ELSE "gpst-infinite-future">>
       ELSE IF call.arg = NegInfiniteDuration
         THEN ret = <<IF call.ts = "TAI" THEN "tai-infinite-past"
                      ELSE "gpst-infinite-past">>
       ELSE ret = FormatFields(ToTM(ExactReading(call.arg, call.ts)),
                               ExactReading(call.arg, call.ts))
                  \o <<call.ts>>
  /\ (Called("FormatTime(format)") /\ call.ts \in {"TAI", "GPST"}) =>
       /\ call.arg[2] = InfiniteDuration =>
            ret = <<IF call.ts = "TAI" THEN "tai-infinite-future"
                    ELSE "gpst-infinite-future">>
       /\ call.arg[2] = NegInfiniteDuration =>
            ret = <<IF call.ts = "TAI" THEN "tai-infinite-past"
                    ELSE "gpst-infinite-past">>

\* C29: the assertions of the interpolation helpers hold on every call
\* reachable from the public API, for every constructed table and every
\* finite input: Advance is called with t > e.utc and e.smear == 0 only,
\* and each Interpolate(e, x) has d >= 0 and, when e.smear != 0, a
\* fractional position 0 <= s <= 1; in-table lookups, FutureProofUnsmear
\* past the expiration and FutureProofSmear past the expiration included.
C29_AssertionsHold ==
  /\ ~aborted
  /\ (call.fn \in {"Unsmear", "UnsmearToGps", "FutureProofUnsmear",
                   "FutureProofUnsmearToGps"} /\ Finite(call.arg)) =>
       UnsmearAsserts(lt, call.arg)
  /\ (call.fn \in {"Smear", "FutureProofSmear"} /\ Finite(call.arg)) =>
       SmearAsserts(lt, call.arg, call.ts)

\* second - first of an interval.
Width(interval) == SubD(interval[2], interval[1])

\* The UTC inputs within the table that are later than utc.
LaterInTable(utc) ==
  {u \in UtcInputs(lt) :
     Le(ModernUtcEpoch, u) /\ Le(u, lt[1].utc) /\ Lt(utc, u)}

\* The finite UTC inputs that are later than utc.
LaterInputs(utc) == {u \in UtcInputs(lt) : Finite(u) /\ Lt(utc, u)}

\* C30 (first part): for every constructed table and every entry E_i,
\* Unsmear(E_i.utc) == E_i.tai and Smear(E_i.tai) == E_i.utc.
C30_Continuous ==
  /\ Called("Unsmear") =>
       \A i \in 1..Len(lt) : call.arg = lt[i].utc => ret = <<lt[i].tai>>
  /\ (Called("Smear") /\ call.ts = "TAI") =>
       \A i \in 1..Len(lt) : call.arg = lt[i].tai => ret = <<lt[i].utc>>

\* C30 (second part): for all utc1 < utc2 in [ModernUtcEpoch(),
\* expiration()], *Unsmear(utc1) < *Unsmear(utc2).
C30_StrictlyIncreasing ==
  (Called("Unsmear") /\ ArgInTable) =>
    \A u \in LaterInTable(call.arg), up \in BOOLEAN :
      Lt(ret[1], Unsmear(lt, u, up)[1])

\* C30 (third part): past the expiration both endpoints of
\* FutureProofUnsmear(utc) and the width of the interval are non-decreasing
\* in utc.
C30_WideningMonotone ==
  (Called("FutureProofUnsmear") /\ ArgPastExpiration /\ ~aborted) =>
    \A u \in LaterInputs(call.arg), up \in BOOLEAN :
      /\ Le(ret[1], FutureProofUnsmear(lt, u, up)[1])
      /\ Le(ret[2], FutureProofUnsmear(lt, u, up)[2])
      /\ Le(Width(ret), Width(FutureProofUnsmear(lt, u, up)))

\* C30: the in-table map is continuous and strictly order-preserving, and
\* past the expiration the endpoints and the width of FutureProofUnsmear
\* are non-decreasing in utc: the three parts together.
C30_ContinuousMonotone ==
  C30_Continuous /\ C30_StrictlyIncreasing /\ C30_WideningMonotone

=============================================================================
